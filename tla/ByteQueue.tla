------------------------------- MODULE ByteQueue -------------------------------
(***************************************************************************)
(* What MsgBuffer promises: a queue of bytes that can be written at its    *)
(* end and in front of its first byte, and read from its front.            *)
(***************************************************************************)
EXTENDS Naturals, Sequences

CONSTANTS Byte

VARIABLES queue,    \* the bytes not read yet
          got       \* the bytes of the last read

QueueInit == queue = <<>> /\ got = <<>>

Put(s) == queue' = queue \o s /\ got' = got
PutFront(s) == queue' = s \o queue /\ got' = got
Unput(n) == queue' = SubSeq(queue, 1, Len(queue) - n) /\ got' = got
Get(n) == /\ queue' = SubSeq(queue, n + 1, Len(queue))
          /\ got' = SubSeq(queue, 1, n)

\* A write adds bytes, and Get takes at most what is there.
QueueNext ==
    \/ \E n \in 1..Len(queue') : \E s \in [1..n -> Byte] : Put(s) \/ PutFront(s)
    \/ \E n \in 0..Len(queue) : Unput(n) \/ Get(n)

QueueSpec == QueueInit /\ [][QueueNext]_<<queue, got>>
================================================================================
