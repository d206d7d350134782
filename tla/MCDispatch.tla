----------------------------- MODULE MCDispatch -----------------------------
(* Instances of Dispatch for TLC: Object (o) with the subclasses t and u.    *)
EXTENDS Dispatch, TLC

CONSTANTS o, t, u, m1, m2, w1

MCSupers  == [c \in Classes |-> {o, c}]
Method2(a, b) == [sig |-> <<a, b>>, va |-> FALSE]
Pairs     == {<<t, t>>}

\* Variadic signatures among fixed ones, two of them incomparable.
MCSigs    == {Method2(o, o), Method2(t, o), Method2(o, t), Method2(t, t),
              [sig |-> <<o, t>>, va |-> TRUE], [sig |-> <<t, o>>, va |-> TRUE]}
MCNatives == <<[sig |-> <<o, o>>, va |-> FALSE, code |-> 0]>>
MCArgs    == {<<t>>} \cup {<<a, b>> : a \in {t, u}, b \in {t, u}} \cup {<<t, t, t>>, <<t, u, t>>}
MCCalls   == Pairs

MCSymmetry == Permutations(Mains)
=============================================================================
