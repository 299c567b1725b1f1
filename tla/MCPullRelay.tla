---------------------------- MODULE MCPullRelay ----------------------------
(* Small instances of PullRelay for TLC.                                   *)
EXTENDS PullRelay

CONSTANTS p1, p2

\* Two streams of an application with one target, tried twice, and one of an
\* application with two targets.
MCPulls == [s \in Sessions |-> IF s = "c" THEN <<2, 3>> ELSE <<1>>]
MCMaxRetry == <<1, 1, 0>>
MCInterval == <<TRUE, TRUE, FALSE>>

\* Two players of one stream, or of two that share their target, and one player alone.
MCLoopOf == [p \in Players |-> IF p = p1 THEN 1 ELSE 2]
MCScenarios == {[p \in Players |-> IF p = p1 THEN two[1] ELSE two[2]] :
                  two \in {<<"a", "a">>, <<"a", "b">>, <<"c", None>>}}

=============================================================================
