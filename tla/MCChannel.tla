----------------------------- MODULE MCChannel ------------------------------
(* Instances of Channel for TLC: three threads on one bounded channel, and  *)
(* a second channel that only one of them is given, to send it to another.  *)
EXTENDS Channel

CONSTANTS t1, t2, t3, a, b

MCCapacity == (a :> 2) @@ (b :> 0)
MCGiven    == (t1 :> {a, b}) @@ (t2 :> {a}) @@ (t3 :> {a})
MCSymmetry == Permutations({t2, t3})
=============================================================================
