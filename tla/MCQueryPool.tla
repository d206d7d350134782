---------------------------- MODULE MCQueryPool ----------------------------
(* Instances of QueryPool for TLC.                                          *)
EXTENDS QueryPool

MCSizes     == {0, 1, 3}
MCOneSize == {2}
=============================================================================
