-------------------------- MODULE MCCycleCollector --------------------------
(* Instances of CycleCollector for TLC.                                     *)
EXTENDS CycleCollector

CONSTANTS c1, c2, c3, s1
MCSymmetry == Permutations(Cells \ Acyclic)
=============================================================================
