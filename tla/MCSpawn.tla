------------------------------ MODULE MCSpawn -------------------------------
(* Instances of Spawn for TLC: a program with a function and a constant.     *)
EXTENDS Spawn

CONSTANTS f, k, w1, w2, w3

\* The program and one of its workers spawn the same function.
MCSpawnable == [i \in Isolates |-> IF i \in {Main, w1} THEN {f} ELSE {}]

MCArguments == {<<>>, <<k, "copy", k>>, <<k, "ref">>}
=============================================================================
