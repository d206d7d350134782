------------------------------ MODULE Counting ------------------------------
(* Sums over finite functions and sequences, as the sizes of finite sets.   *)
EXTENDS Integers, Sequences, FiniteSets

\* How many of the elements of s are x.
Occurrences(s, x) == Cardinality({i \in DOMAIN s : s[i] = x})

\* The units that make up the values of f, and their number.
Units(f) == UNION {{x} \X (1..f[x]) : x \in DOMAIN f}

SumOf(f) == Cardinality(Units(f))
=============================================================================
