------------------------------- MODULE MsgBuffer -------------------------------
(***************************************************************************)
(* MsgBuffer (network/base): the byte queue behind every connection, a     *)
(* vector with a head and a tail, room kept before the head.               *)
(*                                                                         *)
(* buf[i] is byte i - 1 of buffer_; the bytes head+1..tail are unread.     *)
(* Whatever a new or a resized vector holds is 0.                          *)
(***************************************************************************)
EXTENDS Naturals, Sequences

CONSTANTS Byte,         \* bytes
          kBufferOffset,
          InitialCap,   \* the capacity a buffer is made with
          ExtSize,      \* sizeof(extBuffer) in ReadFd
          MaxUnread,    \* bound: unread bytes
          MaxWrite      \* bound: bytes of one write

ASSUME BufferAssumption ==
    /\ Byte \subseteq Nat /\ 0 \in Byte
    /\ kBufferOffset \in Nat /\ InitialCap \in Nat /\ kBufferOffset <= InitialCap
    /\ ExtSize \in Nat /\ MaxUnread \in Nat /\ MaxWrite \in Nat

VARIABLES buf,          \* [bytes, head, tail, cap]: buffer_, head_, tail_, initCap_
          read          \* what the last Read returned
bufVars == <<buf, read>>

Size(b) == Len(b.bytes)
ReadableBytes(b) == b.tail - b.head
WritableBytes(b) == Size(b) - b.tail
Unread(b) == SubSeq(b.bytes, b.head + 1, b.tail)

NewBuffer(cap) ==
    [bytes |-> [i \in 1..(cap + kBufferOffset) |-> 0],
     head |-> kBufferOffset, tail |-> kBufferOffset, cap |-> cap]

\* memcpy: s over the bytes from position at on.
Copy(bytes, at, s) ==
    [i \in DOMAIN bytes |-> IF at < i /\ i <= at + Len(s) THEN s[i - at] ELSE bytes[i]]

\* The memcpy of Append, once there is room.
Store(b, s) == [b EXCEPT !.bytes = Copy(@, b.tail, s), !.tail = @ + Len(s)]

\* A plausible slip: they are moved to the very beginning.
MoveToBegin(b) ==
    [b EXCEPT !.bytes = Copy(@, 0, Unread(b)),
              !.tail = kBufferOffset + ReadableBytes(b),
              !.head = kBufferOffset]

\* EnsureWritableBytes: the unread bytes moved to the front of the buffer.
MoveToFront(b) ==
    [b EXCEPT !.bytes = Copy(@, kBufferOffset, Unread(b)),
              !.tail = kBufferOffset + ReadableBytes(b),
              !.head = kBufferOffset]

\* EnsureWritableBytes: enough room, or the unread bytes moved, or
\* a new buffer that takes them over (with its capacity).
EnsureWritableBytes(b, len) ==
    LET need == kBufferOffset + ReadableBytes(b) + len
    IN  CASE WritableBytes(b) >= len -> b
          [] WritableBytes(b) < len /\ b.head + WritableBytes(b) >= len + kBufferOffset ->
               MoveToFront(b)
          [] OTHER -> Store(NewBuffer(IF Size(b) * 2 > need THEN Size(b) * 2 ELSE need), Unread(b))

AppendBytes(b, s) == Store(EnsureWritableBytes(b, Len(s)), s)

\* RetrieveAll, Retrieve.
RetrieveAll(b) ==
    [b EXCEPT !.bytes = IF Size(b) > 2 * b.cap THEN SubSeq(@, 1, b.cap) ELSE @,
              !.head = kBufferOffset, !.tail = kBufferOffset]
Retrieve(b, len) ==
    IF len >= ReadableBytes(b) THEN RetrieveAll(b) ELSE [b EXCEPT !.head = @ + len]

--------------------------------------------------------------------------------

Writes == UNION {[1..n -> Byte] : n \in 1..MaxWrite}
Fits(s) == ReadableBytes(buf) + Len(s) <= MaxUnread

BufferInit == buf = NewBuffer(InitialCap) /\ read = <<>>

\* Append, AppendInt16, AppendInt32 and AppendInt64 (bytes in network order).
AppendTo(s) ==
    /\ Fits(s)
    /\ buf' = AppendBytes(buf, s)
    /\ UNCHANGED read

\* AddInFront: before the head if there is room, or after the unread bytes are
\* moved up (std::copy of bytes moves them whole, overlap or not), or in a new
\* buffer.
AddInFront(s) ==
    /\ Fits(s)
    /\ buf' = CASE buf.head >= Len(s) ->
                     [buf EXCEPT !.bytes = Copy(@, buf.head - Len(s), s), !.head = @ - Len(s)]
                [] buf.head < Len(s) /\ Len(s) <= WritableBytes(buf) ->
                     [buf EXCEPT !.bytes = Copy(Copy(@, buf.head + Len(s), Unread(buf)), buf.head, s),
                                 !.tail = @ + Len(s)]
                [] OTHER ->
                     LET new == IF Len(s) + ReadableBytes(buf) < buf.cap THEN buf.cap
                                ELSE Len(s) + ReadableBytes(buf)
                     IN  AppendBytes(AppendBytes(NewBuffer(new), s), Unread(buf))
    /\ UNCHANGED read

\* ReadFd: readv fills the free part, and what does not fit goes through the
\* buffer on the stack.
ReadFd(s) ==
    LET writable == WritableBytes(buf)
        room == writable + (IF writable < ExtSize THEN ExtSize ELSE 0)
    IN  /\ Fits(s) /\ Len(s) <= room
        /\ buf' = IF Len(s) <= writable THEN Store(buf, s)
                  ELSE AppendBytes(Store(buf, SubSeq(s, 1, writable)),
                                   SubSeq(s, writable + 1, Len(s)))
        /\ UNCHANGED read

\* Read, ReadInt8 to ReadInt64: the first len bytes, or all there are.
ReadBytes(len) ==
    LET n == IF len > ReadableBytes(buf) THEN ReadableBytes(buf) ELSE len
    IN  /\ read' = SubSeq(Unread(buf), 1, n)
        /\ buf' = Retrieve(buf, n)

\* Unwrite: bytes taken back from the end.
Unwrite(len) ==
    /\ len <= ReadableBytes(buf)
    /\ buf' = [buf EXCEPT !.tail = @ - len]
    /\ UNCHANGED read

BufferNext ==
    \/ \E s \in Writes : AppendTo(s) \/ AddInFront(s) \/ ReadFd(s)
    \/ \E len \in 1..MaxWrite : ReadBytes(len) \/ Unwrite(len)

BufferSpec == BufferInit /\ [][BufferNext]_bufVars

--------------------------------------------------------------------------------

Queue == INSTANCE ByteQueue WITH queue <- Unread(buf), got <- read

\* MsgBuffer is a byte queue: whichever of its ways to make room is taken
\* (moving, growing, writing before the head, reading through the stack
\* buffer), no unread byte is lost, repeated or reordered.
IsByteQueue == Queue!QueueSpec
================================================================================
