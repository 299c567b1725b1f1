--------------------------- MODULE MCRtmpContext ---------------------------
(* Small instances of RtmpContext for TLC.                                 *)
EXTENDS RtmpContext

=============================================================================
