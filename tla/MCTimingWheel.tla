--------------------------- MODULE MCTimingWheel ---------------------------
(* Small instances of TimingWheel for TLC: entries as model values.        *)
EXTENDS TimingWheel

CONSTANTS t1, r1, c1

=============================================================================
