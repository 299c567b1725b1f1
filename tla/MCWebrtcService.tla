-------------------------- MODULE MCWebrtcService --------------------------
(* Small instances of WebrtcService for TLC.                               *)
EXTENDS WebrtcService

CONSTANTS u1, a1, a2

MCKinds == <<"key", "b", "inter">>

=============================================================================
