--------------------------- MODULE MCLiveSession ---------------------------
(* Small instances of LiveSession for TLC: the clients as model values.    *)
EXTENDS LiveSession

CONSTANTS c1, c2, c3

=============================================================================
