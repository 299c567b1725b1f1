---------------------------- MODULE MCHlsWindow ----------------------------
(* A small instance of HlsWindow for TLC: the readers as model values.     *)
EXTENDS HlsWindow

CONSTANTS r1, r2

=============================================================================
