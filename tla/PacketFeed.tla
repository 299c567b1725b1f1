----------------------------- MODULE PacketFeed -----------------------------
(***************************************************************************)
(* What a live stream promises its players: the publisher's packets are    *)
(* numbered in the order they arrive, and each player is sent an increasing*)
(* subsequence of those published so far, and nothing before the stream is *)
(* ready.  How far a player lags, what it skips and in which batches the   *)
(* packets come is left open.                                              *)
(***************************************************************************)
EXTENDS Integers

CONSTANT Players

VARIABLES published, ready, last_sent

feedVars == <<published, ready, last_sent>>

Init ==
  /\ published = -1
  /\ ready = FALSE
  /\ last_sent = [u \in Players |-> -1]

\* A packet arrives; a stream that is ready stays so.
Publish ==
  /\ published' = published + 1
  /\ ready' \in {ready, TRUE}
  /\ UNCHANGED last_sent

\* A player is sent packets that it has not been sent, up to some newer one.
Send(u) ==
  /\ ready
  /\ \E n \in last_sent[u] + 1 .. published : last_sent' = [last_sent EXCEPT ![u] = n]
  /\ UNCHANGED <<published, ready>>

Next == Publish \/ \E u \in Players : Send(u)

Spec == Init /\ [][Next]_feedVars

=============================================================================
