---------------------------- MODULE MCEventLoop ----------------------------
(* Small instances of EventLoop for TLC: the loops as model values.        *)
EXTENDS EventLoop

CONSTANTS l1, l2

=============================================================================
