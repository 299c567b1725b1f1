---------------------------- MODULE MCLiveStream ----------------------------
(* Small instances of LiveStream for TLC: the players as model values.     *)
EXTENDS LiveStream

CONSTANTS p1, p2

=============================================================================
