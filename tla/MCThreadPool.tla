--------------------------- MODULE MCThreadPool ---------------------------
(* Instances of ThreadPool for TLC.                                        *)
EXTENDS ThreadPool

CONSTANTS c1, c2

MCSizes   == {0, 1, 2, 4, 5}
=============================================================================
