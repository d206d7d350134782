-------------------------- MODULE MCSoundRecorder --------------------------
(* Instances of SoundRecorder for TLC.                                      *)
EXTENDS SoundRecorder

CONSTANTS b1, b2, b3
MCSpans == {1, 3}
=============================================================================
