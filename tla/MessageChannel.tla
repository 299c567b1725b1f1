--------------------------- MODULE MessageChannel ---------------------------
(***************************************************************************)
(* What an RTMP connection promises its two ends, once the handshake is    *)
(* done: each end receives the messages that the other one sent, as they   *)
(* were sent, each once and in order.                                      *)
(***************************************************************************)
EXTENDS Naturals, Sequences, SequencesExt

CONSTANT Peers

VARIABLES
  sent,      \* for each peer, the messages it has sent
  received   \* for each peer, those of them that the other one has

channelVars == <<sent, received>>

Init ==
  /\ sent = [p \in Peers |-> <<>>]
  /\ received = [p \in Peers |-> <<>>]

\* Both ends may send and receive several messages in one step, and what is
\* received was sent before the step.
Next ==
  /\ DOMAIN sent' = Peers /\ DOMAIN received' = Peers
  /\ \A p \in Peers : /\ IsPrefix(sent[p], sent'[p])
                      /\ IsPrefix(received[p], received'[p])
                      /\ IsPrefix(received'[p], sent[p])

Spec == Init /\ [][Next]_channelVars

=============================================================================
