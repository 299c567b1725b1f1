------------------------- MODULE Sequential_proofs --------------------------
(***************************************************************************)
(* Three parts that run on one thread each, and share no state.            *)
(*                                                                         *)
(* TimelineKept of TimeCorrector, for any time stamps and any limits.  It  *)
(* is not inductive: that an audio packet lands where its video is         *)
(* follows, for the second audio packet in a row, from where the first one *)
(* was put (there must have been one: AudioKnown), and, for the first      *)
(* video packet, from audio having had its own times (AudioAlone).         *)
(*                                                                         *)
(* MsgBuffer implements ByteQueue, for any bytes, capacities and sizes of  *)
(* reads and writes.  Each helper is shown to keep a buffer well formed    *)
(* and to change its unread bytes as its name says; a step is then a step  *)
(* of the queue.                                                           *)
(*                                                                         *)
(* SendingIsBusy and BytesCountedOnce of RtmpContext, for any sizes of     *)
(* chunks, windows and messages and any cuts of reads and writes.  A       *)
(* handler is shown to keep a context open (Open: busy exactly while the   *)
(* connection has bytes of it) from the helpers it is composed of.  What   *)
(* it is given comes from the wire, so every cell there is well formed     *)
(* (CellsOK), and so is all that was kept of those read before (InType).   *)
(***************************************************************************)
EXTENDS TimeCorrector, MsgBuffer, RtmpContext, SequenceTheorems, WellFoundedInduction,
        Integers, TLAPS

--------------------------------------------------------------------------------
(* Timestamp correction.                                                   *)

Stamp == [orig : Int, corr : Int]
TimeType ==
    /\ video \in Stamp /\ audio \in Stamp /\ before \in Stamp
    /\ between \in Nat /\ packets \in Nat
    /\ apart \in BOOLEAN /\ fresh \in BOOLEAN

\* The first audio packet after a video packet is the one that is counted 1.
Counted == fresh <=> between = 0

\* After an audio packet its time is known, and times are not negative.
AudioKnown == /\ ~fresh => audio.orig # -1
              /\ audio.orig >= -1 /\ video.orig >= -1

\* Before any video, audio goes by its own times until they jump.
AudioAlone == ~apart /\ video.orig = -1 /\ audio.orig # -1 => audio.corr = audio.orig

TimeInv == TimeType /\ Counted /\ AudioKnown /\ AudioAlone /\ TimelineKept

\* Advance stays at or above 0 and moves by less than the limit.
LEMMA AdvanceFine ==
    ASSUME NEW corr \in Int, corr >= 0, NEW delta \in Int,
           NEW default \in 0..(kMaxDelta - 1)
    PROVE  /\ Advance(corr, delta, default) \in Int
           /\ Advance(corr, delta, default) >= 0
           /\ Fine(Advance(corr, delta, default) - corr)
BY TimeAssumption DEF Advance, Floor, Fine

\* A fine step that does not reach below 0 is made in full.
LEMMA AdvanceExact ==
    ASSUME NEW corr \in Int, NEW delta \in Int, NEW default \in Int,
           Fine(delta), corr + delta >= 0
    PROVE  Advance(corr, delta, default) = corr + delta
BY DEF Advance, Floor

\* Before the first packet nothing is owed.
LEMMA InitKept == TimeInit => TimeInv
<1> SUFFICES ASSUME TimeInit PROVE TimeInv
  OBVIOUS
<1>1. NoStamp \in Stamp /\ NoStamp.orig = -1 /\ NoStamp.corr = 0
  BY DEF NoStamp, Stamp
<1>2. TimeType
  BY <1>1 DEF TimeInit, TimeType
<1>3. Counted /\ AudioKnown /\ AudioAlone
  BY <1>1 DEF TimeInit, Counted, AudioKnown, AudioAlone
<1>4. TimelineKept
  BY <1>1 DEF TimeInit, TimelineKept, SyncKept, VideoContinuous
<1> QED
  BY <1>2, <1>3, <1>4 DEF TimeInv

\* A video packet (CorrectVideoTimeStampByVideo).
LEMMA VideoKept ==
    ASSUME TimeInv, NEW t \in Times, CorrectVideo(t)
    PROVE  TimeInv'
<1>1. t \in Nat
  BY TimeAssumption
<1> DEFINE base == VideoBase(t)
<1>2. base \in Stamp /\ base.corr >= 0
  BY <1>1 DEF VideoBase, TimeInv, TimeType, TimelineKept, VideoContinuous, Stamp
<1> DEFINE corr == Advance(base.corr, t - base.orig, kDefaultVideoDelta)
<1>3. t - base.orig \in Int /\ base.corr \in Int
  BY <1>1, <1>2 DEF Stamp
<1>4. corr \in Int /\ corr >= 0 /\ Fine(corr - base.corr)
  BY <1>2, <1>3, AdvanceFine, TimeAssumption
<1>5. /\ video' = [orig |-> t, corr |-> corr]
      /\ audio' = audio /\ before' = video /\ between' = 0 /\ fresh' = TRUE
      /\ packets' = packets + 1
      /\ apart' = (apart \/ ~Fine(t - base.orig) \/ base.corr + t - base.orig < 0)
  BY DEF CorrectVideo
<1>6. TimeType' /\ Counted' /\ AudioKnown' /\ AudioAlone'
  BY <1>1, <1>4, <1>5 DEF TimeInv, TimeType, Counted, AudioKnown, AudioAlone, Stamp
<1>7. VideoContinuous'
  <2>1. video'.corr >= 0 /\ audio'.corr >= 0
    BY <1>4, <1>5 DEF TimeInv, TimelineKept, VideoContinuous
  <2>2. ASSUME before'.orig # -1 PROVE Fine(video'.corr - before'.corr)
    <3>1. base = video
      BY <2>2, <1>5 DEF VideoBase
    <3> QED
      BY <3>1, <1>4, <1>5
  <2> QED
    BY <2>1, <2>2 DEF VideoContinuous
<1>8. SyncKept'
  <2> SUFFICES ASSUME ~apart', audio.orig # -1
               PROVE  audio.corr - audio.orig = corr - t
    BY <1>5 DEF SyncKept
  <2>1. ~apart /\ Fine(t - base.orig) /\ base.corr + (t - base.orig) >= 0
    <3>1. ~apart /\ Fine(t - base.orig) /\ ~(base.corr + t - base.orig < 0)
      BY <1>5
    <3> QED
      BY <3>1, <1>1, <1>2 DEF Stamp
  <2>2. corr = base.corr + (t - base.orig)
    BY <2>1, <1>3, AdvanceExact, TimeAssumption
  <2>3. CASE video.orig # -1
    BY <2>1, <2>2, <2>3, <1>1 DEF VideoBase, TimeInv, TimeType, TimelineKept, SyncKept, Stamp
  <2>4. CASE video.orig = -1
    <3>1. audio.corr = audio.orig
      BY <2>1, <2>4 DEF TimeInv, AudioAlone
    <3> QED
      BY <3>1, <2>2, <2>4, <1>1 DEF VideoBase, TimeInv, TimeType, Stamp
  <2> QED
    BY <2>3, <2>4
<1> QED
  BY <1>6, <1>7, <1>8 DEF TimeInv, TimelineKept

\* An audio packet (CorrectAudioTimeStampByVideo, CorrectAudioTimeStampByAudio).
LEMMA AudioKept ==
    ASSUME TimeInv, NEW t \in Times, CorrectAudio(t)
    PROVE  TimeInv'
<1>1. t \in Nat
  BY TimeAssumption
<1> DEFINE by == IF fresh THEN video ELSE audio
<1>2. by \in Stamp /\ by.corr >= 0
  BY DEF TimeInv, TimeType, TimelineKept, VideoContinuous
<1>3. t - by.orig \in Int /\ by.corr \in Int
  BY <1>1, <1>2 DEF Stamp
<1>4. /\ audio' = [orig |-> t, corr |-> AudioByVideo(t)]
      /\ video' = video /\ before' = video /\ between' = between + 1 /\ fresh' = FALSE
      /\ packets' = packets + 1
      /\ apart' = (\/ ~fresh /\ apart
                   \/ by.orig # -1 /\ (~Fine(t - by.orig) \/ by.corr + t - by.orig < 0))
  BY DEF CorrectAudio
<1> DEFINE default == IF fresh THEN kDefaultVideoDelta ELSE kDefaultAudioDelta
<1>5. AudioByVideo(t) = IF by.orig = -1 THEN t ELSE Advance(by.corr, t - by.orig, default)
  BY DEF AudioByVideo, AudioByAudio, TimeInv, TimeType, Counted
<1>6. AudioByVideo(t) \in Int /\ AudioByVideo(t) >= 0
  <2>1. default \in 0..(kMaxDelta - 1)
    BY TimeAssumption
  <2> HIDE DEF by, default
  <2> QED
    BY <2>1, <1>1, <1>2, <1>3, <1>5, AdvanceFine
<1>7. by.orig # -1 /\ ~apart' => AudioByVideo(t) = by.corr + (t - by.orig)
  <2>1. default \in Int
    BY TimeAssumption
  <2>2. by.orig # -1 /\ ~apart' => Fine(t - by.orig) /\ by.corr + (t - by.orig) >= 0
    BY <1>1, <1>2, <1>4 DEF Stamp
  <2> HIDE DEF by, default
  <2> QED
    BY <2>1, <2>2, <1>3, <1>5, AdvanceExact
<1>8. TimeType' /\ Counted' /\ AudioKnown'
  <2>1. video' \in Stamp /\ audio' \in Stamp /\ before' \in Stamp
    BY <1>1, <1>4, <1>6 DEF TimeInv, TimeType, Stamp
  <2>2. between' \in Nat /\ packets' \in Nat /\ between' # 0
    BY <1>4 DEF TimeInv, TimeType
  <2>3. apart' \in BOOLEAN /\ fresh' \in BOOLEAN
    BY <1>4
  <2>4. AudioKnown'
    BY <1>1, <1>4 DEF TimeInv, AudioKnown
  <2> QED
    BY <2>1, <2>2, <2>3, <2>4, <1>4 DEF TimeType, Counted
<1>9. AudioAlone'
  <2> SUFFICES ASSUME ~apart', video.orig = -1 PROVE AudioByVideo(t) = t
    BY <1>4 DEF AudioAlone
  <2>1. CASE fresh
    BY <2>1, <1>5
  <2>2. CASE ~fresh
    BY <2>2, <1>1, <1>4, <1>7 DEF TimeInv, TimeType, AudioKnown, AudioAlone, Stamp
  <2> QED
    BY <2>1, <2>2
<1>10. VideoContinuous'
  <2>1. Fine(video.corr - video.corr)
    BY TimeAssumption DEF Fine, TimeInv, TimeType, Stamp
  <2> QED
    BY <2>1, <1>4, <1>6 DEF VideoContinuous, TimeInv, TimelineKept
<1>11. SyncKept'
  <2> SUFFICES ASSUME ~apart', video.orig # -1
               PROVE  AudioByVideo(t) - t = video.corr - video.orig
    BY <1>4 DEF SyncKept
  <2>1. CASE fresh
    BY <2>1, <1>1, <1>2, <1>7 DEF Stamp
  <2>2. CASE ~fresh
    BY <2>2, <1>1, <1>4, <1>7 DEF TimeInv, TimeType, AudioKnown, TimelineKept, SyncKept, Stamp
  <2> QED
    BY <2>1, <2>2
<1> QED
  BY <1>8, <1>9, <1>10, <1>11 DEF TimeInv, TimelineKept

\* Sound and picture stay together and video goes on in small steps, whatever
\* a publisher's time stamps do (TimeCorrector::CorrectTimestamp).
THEOREM TimelineCorrect == TimeSpec => []TimelineKept
<1>1. TimeInv /\ [TimeNext]_timeVars => TimeInv'
  <2> SUFFICES ASSUME TimeInv, [TimeNext]_timeVars PROVE TimeInv'
    OBVIOUS
  <2>1. CASE TimeNext
    BY <2>1, VideoKept, AudioKept DEF TimeNext
  <2>2. CASE UNCHANGED timeVars
    BY <2>2 DEF timeVars, TimeInv, TimeType, Counted, AudioKnown, AudioAlone,
        TimelineKept, SyncKept, VideoContinuous
  <2> QED
    BY <2>1, <2>2
<1>2. TimeInv => TimelineKept
  BY DEF TimeInv
<1> QED
  BY <1>1, <1>2, InitKept, PTL DEF TimeSpec

--------------------------------------------------------------------------------
(* The byte buffer.                                                        *)

\* A buffer: head and tail lie in the vector, which is never smaller than the
\* capacity it goes back to, and that leaves the room before the head.
Buffer == [bytes : Seq(Byte), head : Nat, tail : Nat, cap : Nat]
BufOK(b) ==
    /\ b \in Buffer
    /\ b.head <= b.tail /\ b.tail <= Len(b.bytes)
    /\ kBufferOffset <= b.cap /\ b.cap <= Len(b.bytes)

--------------------------------------------------------------------------------

\* A function on 1..n with bytes for values is a sequence of n bytes.
LEMMA ByteSeq ==
    ASSUME NEW n \in Nat, NEW f \in [1..n -> Byte]
    PROVE  f \in Seq(Byte) /\ Len(f) = n
<1>1. f \in Seq(Byte)
  BY SeqDef
<1>2. DOMAIN f = 1..n /\ DOMAIN f = 1..Len(f) /\ Len(f) \in Nat
  BY <1>1, LenProperties
<1> QED
  BY <1>1, <1>2

\* memcpy: the bytes after position at are those of s, the others stay.
LEMMA CopyIs ==
    ASSUME NEW bytes \in Seq(Byte), NEW at \in Nat, NEW s \in Seq(Byte)
    PROVE  /\ Copy(bytes, at, s) \in Seq(Byte)
           /\ Len(Copy(bytes, at, s)) = Len(bytes)
           /\ \A i \in 1..Len(bytes) :
                Copy(bytes, at, s)[i] = IF at < i /\ i <= at + Len(s) THEN s[i - at] ELSE bytes[i]
<1>1. /\ Len(bytes) \in Nat /\ DOMAIN bytes = 1..Len(bytes) /\ \A i \in 1..Len(bytes) : bytes[i] \in Byte
      /\ Len(s) \in Nat /\ \A i \in 1..Len(s) : s[i] \in Byte
  BY LenProperties, ElementOfSeq
<1>2. Copy(bytes, at, s) \in [1..Len(bytes) -> Byte]
  <2> SUFFICES ASSUME NEW i \in 1..Len(bytes), at < i, i <= at + Len(s)
               PROVE  s[i - at] \in Byte
    BY <1>1 DEF Copy
  <2>1. i - at \in 1..Len(s)
    BY <1>1
  <2> QED
    BY <1>1, <2>1
<1>3. \A i \in 1..Len(bytes) :
        Copy(bytes, at, s)[i] = IF at < i /\ i <= at + Len(s) THEN s[i - at] ELSE bytes[i]
  BY <1>1 DEF Copy
<1> QED
  BY <1>1, <1>2, <1>3, ByteSeq

\* The unread bytes, one by one.
LEMMA UnreadIs ==
    ASSUME NEW b, BufOK(b)
    PROVE  /\ Unread(b) \in Seq(Byte)
           /\ Len(Unread(b)) = b.tail - b.head
           /\ \A i \in 1..(b.tail - b.head) : Unread(b)[i] = b.bytes[b.head + i]
<1>1. /\ b.bytes \in Seq(Byte) /\ b.head \in Nat /\ b.tail \in Nat
      /\ b.head <= b.tail /\ b.tail <= Len(b.bytes)
  BY DEF BufOK, Buffer
<1>2. Len(b.bytes) \in Nat
  BY <1>1, LenProperties
<1>3. /\ b.head + 1 \in 1..Len(b.bytes) + 1
      /\ b.tail \in b.head + 1 - 1..Len(b.bytes)
  BY <1>1, <1>2
<1>4. \A i \in (b.head + 1)..b.tail : i \in 1..Len(b.bytes)
  BY <1>1, <1>2
<1>5. b.bytes \in [1..Len(b.bytes) -> Byte]
  BY <1>1, LenProperties
<1> DEFINE u == SubSeq(b.bytes, b.head + 1, b.tail)
<1>6. /\ u \in Seq(Byte)
      /\ Len(u) = IF b.head + 1 <= b.tail THEN b.tail - (b.head + 1) + 1 ELSE 0
      /\ \A i \in 1..(b.tail - (b.head + 1) + 1) : u[i] = b.bytes[b.head + 1 + i - 1]
  BY SMTT(30), <1>1, <1>3, <1>4, SubSeqProperties
<1>7. Len(u) = b.tail - b.head
  BY <1>1, <1>6
<1>8. \A i \in 1..(b.tail - b.head) : u[i] = b.bytes[b.head + i]
  BY SMTT(30), <1>1, <1>6
<1> QED
  BY <1>6, <1>7, <1>8 DEF Unread

\* A buffer whose bytes from the head on are those of u has u unread.
LEMMA UnreadEquals ==
    ASSUME NEW b, BufOK(b), NEW u \in Seq(Byte), Len(u) = b.tail - b.head,
           \A i \in 1..(b.tail - b.head) : b.bytes[b.head + i] = u[i]
    PROVE  Unread(b) = u
<1>1. /\ Unread(b) \in Seq(Byte) /\ Len(Unread(b)) = Len(u)
      /\ \A i \in 1..Len(Unread(b)) : Unread(b)[i] = u[i]
  BY UnreadIs
<1> QED
  BY <1>1, SeqEqual

--------------------------------------------------------------------------------
(* Making room and writing.                                                *)

\* What BufOK says of numbers.
LEMMA Numbers ==
    ASSUME NEW b, BufOK(b)
    PROVE  /\ b.bytes \in Seq(Byte) /\ Len(b.bytes) \in Nat
           /\ b.head \in Nat /\ b.tail \in Nat /\ b.cap \in Nat
           /\ b.head <= b.tail /\ b.tail <= Len(b.bytes)
           /\ kBufferOffset <= b.cap /\ b.cap <= Len(b.bytes)
           /\ ReadableBytes(b) = b.tail - b.head /\ ReadableBytes(b) \in Nat
           /\ WritableBytes(b) = Len(b.bytes) - b.tail /\ WritableBytes(b) \in Nat
           /\ Len(Unread(b)) = ReadableBytes(b)
<1>1. b.bytes \in Seq(Byte) /\ b.head \in Nat /\ b.tail \in Nat /\ b.cap \in Nat
  BY DEF BufOK, Buffer
<1>2. Len(b.bytes) \in Nat
  BY <1>1, LenProperties
<1> QED
  BY <1>1, <1>2, UnreadIs DEF BufOK, ReadableBytes, WritableBytes, Size

\* Append's memcpy adds its bytes at the end.
LEMMA StoreOK ==
    ASSUME NEW b, BufOK(b), NEW s \in Seq(Byte), Len(s) <= WritableBytes(b)
    PROVE  /\ BufOK(Store(b, s))
           /\ Unread(Store(b, s)) = Unread(b) \o s
           /\ WritableBytes(Store(b, s)) = WritableBytes(b) - Len(s)
<1> DEFINE c == Store(b, s)
<1>1. /\ b.bytes \in Seq(Byte) /\ Len(b.bytes) \in Nat
      /\ b.head \in Nat /\ b.tail \in Nat /\ b.cap \in Nat /\ Len(s) \in Nat
      /\ b.head <= b.tail /\ b.tail + Len(s) <= Len(b.bytes)
      /\ kBufferOffset <= b.cap /\ b.cap <= Len(b.bytes)
  BY Numbers, LenProperties
<1> DEFINE cb == Copy(b.bytes, b.tail, s)
           ct == b.tail + Len(s)
<1>a. cb \in Seq(Byte) /\ ct \in Nat
  <2>1. ct \in Nat
    BY <1>1
  <2> DEFINE v == b.bytes
             t == b.tail
  <2>2. v \in Seq(Byte) /\ t \in Nat /\ t + Len(s) <= Len(v)
    BY <1>1
  <2> HIDE DEF v, t
  <2>3. Copy(v, t, s) \in Seq(Byte)
    BY <2>2, CopyIs
  <2> QED BY <2>1, <2>3 DEF v, t
<1>b. b \in Buffer
  BY DEF BufOK
<1>c. c = [b EXCEPT !.bytes = cb, !.tail = ct]
  BY DEF Store
<1>d. /\ Len(cb) = Len(b.bytes)
      /\ \A i \in 1..Len(b.bytes) :
           cb[i] = IF b.tail < i /\ i <= b.tail + Len(s) THEN s[i - b.tail] ELSE b.bytes[i]
  BY <1>1, CopyIs
<1> HIDE DEF cb, ct
<1>2. /\ c.bytes = cb /\ c.head = b.head /\ c.tail = ct /\ c.cap = b.cap
      /\ c \in Buffer
  <2> HIDE DEF c
  <2> QED
    BY <1>a, <1>b, <1>c DEF Buffer
<1>3. /\ c.bytes \in Seq(Byte) /\ Len(c.bytes) = Len(b.bytes)
      /\ \A i \in 1..Len(b.bytes) :
           c.bytes[i] = IF b.tail < i /\ i <= b.tail + Len(s) THEN s[i - b.tail] ELSE b.bytes[i]
  BY <1>2, <1>a, <1>d
<1>e. c.tail = b.tail + Len(s)
  BY <1>2 DEF ct
<1> HIDE DEF c
<1>4. BufOK(c)
  BY <1>1, <1>2, <1>3, <1>e DEF BufOK
<1>5. /\ Unread(b) \in Seq(Byte) /\ Len(Unread(b)) = b.tail - b.head
      /\ \A i \in 1..(b.tail - b.head) : Unread(b)[i] = b.bytes[b.head + i]
  BY UnreadIs
<1> DEFINE v == Unread(b)
           u == v \o s
<1>f. Len(v) = b.tail - b.head
  BY <1>5
<1>6. /\ u \in Seq(Byte) /\ Len(u) = b.tail - b.head + Len(s)
      /\ \A i \in 1..(b.tail - b.head + Len(s)) :
           u[i] = IF i <= b.tail - b.head THEN v[i] ELSE s[i - (b.tail - b.head)]
  <2>1. v \in Seq(Byte)
    BY <1>5
  <2> HIDE DEF v
  <2>2. /\ u \in Seq(Byte) /\ Len(u) = Len(v) + Len(s)
        /\ \A i \in 1..Len(v) + Len(s) : u[i] = IF i <= Len(v) THEN v[i] ELSE s[i - Len(v)]
    BY <2>1, ConcatProperties
  <2> QED
    BY <2>2, <1>f
<1> HIDE DEF u
<1>7. ASSUME NEW i \in 1..(c.tail - c.head) PROVE c.bytes[c.head + i] = u[i]
  <2>1. /\ i \in 1..(b.tail - b.head + Len(s)) /\ c.head + i = b.head + i
        /\ b.head + i \in 1..Len(b.bytes) /\ b.head + i <= b.tail + Len(s)
        /\ i - (b.tail - b.head) = b.head + i - b.tail
    BY <1>1, <1>2, <1>e
  <2>2. CASE i <= b.tail - b.head
    <3>1. i \in 1..(b.tail - b.head) /\ ~(b.tail < b.head + i)
      BY <2>1, <2>2, <1>1
    <3>2. c.bytes[b.head + i] = b.bytes[b.head + i]
      BY <2>1, <3>1, <1>3
    <3> QED
      BY <2>1, <2>2, <3>1, <3>2, <1>5, <1>6
  <2>3. CASE ~(i <= b.tail - b.head)
    <3>1. b.tail < b.head + i
      BY <2>1, <2>3, <1>1
    <3> DEFINE k == b.head + i
    <3>k. k = b.head + i
      OBVIOUS
    <3>a. k \in 1..Len(b.bytes) /\ b.tail < k /\ k <= b.tail + Len(s)
      BY <2>1, <3>1
    <3> HIDE DEF k
    <3>b. c.bytes[k] = s[k - b.tail]
      BY <3>a, <1>3
    <3>2. c.bytes[b.head + i] = s[b.head + i - b.tail]
      BY SMTT(30), <3>a, <3>b, <3>k, <2>1, <1>1
    <3> QED
      BY <2>1, <2>3, <3>2, <1>6
  <2> QED
    BY <2>2, <2>3
<1>8. Len(u) = c.tail - c.head
  BY <1>1, <1>2, <1>6, <1>e
<1>9. Unread(c) = u
  BY <1>4, <1>6, <1>7, <1>8, UnreadEquals
<1>10. WritableBytes(c) = WritableBytes(b) - Len(s)
  BY <1>1, <1>3, <1>e DEF WritableBytes, Size
<1> QED
  BY <1>4, <1>9, <1>10 DEF c, u

\* A new buffer is empty and has its capacity to write to.
LEMMA NewOK ==
    ASSUME NEW cap \in Nat, kBufferOffset <= cap
    PROVE  /\ BufOK(NewBuffer(cap)) /\ Unread(NewBuffer(cap)) = <<>>
           /\ WritableBytes(NewBuffer(cap)) = cap /\ NewBuffer(cap).cap = cap
<1> DEFINE b == NewBuffer(cap)
           f == [i \in 1..(cap + kBufferOffset) |-> 0]
<1>1. kBufferOffset \in Nat /\ 0 \in Byte
  BY BufferAssumption
<1>2. f \in Seq(Byte) /\ Len(f) = cap + kBufferOffset
  BY <1>1, ByteSeq
<1> HIDE DEF f
<1>3. /\ b.bytes = f /\ b.head = kBufferOffset /\ b.tail = kBufferOffset /\ b.cap = cap
      /\ b \in Buffer
  BY <1>1, <1>2 DEF NewBuffer, Buffer, f
<1> HIDE DEF b
<1>4. BufOK(b)
  BY <1>1, <1>2, <1>3 DEF BufOK
<1>5. Unread(b) = <<>>
  BY <1>4, <1>3, <1>1, UnreadIs, EmptySeq
<1>6. WritableBytes(b) = cap
  BY <1>1, <1>2, <1>3 DEF WritableBytes, Size
<1> QED
  BY <1>3, <1>4, <1>5, <1>6 DEF b

\* Moving the unread bytes to the front leaves them as they were.
LEMMA MoveOK ==
    ASSUME NEW b, BufOK(b), kBufferOffset + ReadableBytes(b) <= Len(b.bytes)
    PROVE  /\ BufOK(MoveToFront(b)) /\ Unread(MoveToFront(b)) = Unread(b)
           /\ WritableBytes(MoveToFront(b)) = Len(b.bytes) - kBufferOffset - ReadableBytes(b)
<1> DEFINE c == MoveToFront(b)
<1>1. /\ b.bytes \in Seq(Byte) /\ Len(b.bytes) \in Nat /\ kBufferOffset \in Nat
      /\ b.head \in Nat /\ b.tail \in Nat /\ b.cap \in Nat
      /\ ReadableBytes(b) = b.tail - b.head /\ ReadableBytes(b) \in Nat
      /\ kBufferOffset <= b.cap /\ b.cap <= Len(b.bytes)
  BY Numbers, BufferAssumption
<1>2. /\ Unread(b) \in Seq(Byte) /\ Len(Unread(b)) = ReadableBytes(b)
  BY UnreadIs, Numbers
<1> DEFINE cb == Copy(b.bytes, kBufferOffset, Unread(b))
           ct == kBufferOffset + ReadableBytes(b)
<1>a. cb \in Seq(Byte) /\ ct \in Nat
  BY <1>1, <1>2, CopyIs
<1>b. b \in Buffer
  BY DEF BufOK
<1>c. c = [b EXCEPT !.bytes = cb, !.tail = ct, !.head = kBufferOffset]
  BY DEF MoveToFront
<1>d. /\ Len(cb) = Len(b.bytes)
      /\ \A i \in 1..Len(b.bytes) :
           cb[i] = IF kBufferOffset < i /\ i <= kBufferOffset + ReadableBytes(b)
                   THEN Unread(b)[i - kBufferOffset] ELSE b.bytes[i]
  BY SMTT(30), <1>1, <1>2, CopyIs
<1> HIDE DEF cb, ct
<1>3. /\ c.bytes = cb /\ c.head = kBufferOffset /\ c.tail = ct /\ c.cap = b.cap
      /\ c \in Buffer
  <2> HIDE DEF c
  <2> QED
    BY <1>1, <1>a, <1>b, <1>c DEF Buffer
<1>4. /\ c.bytes \in Seq(Byte) /\ Len(c.bytes) = Len(b.bytes)
      /\ \A i \in 1..Len(b.bytes) :
           c.bytes[i] = IF kBufferOffset < i /\ i <= kBufferOffset + ReadableBytes(b)
                        THEN Unread(b)[i - kBufferOffset] ELSE b.bytes[i]
  BY <1>3, <1>a, <1>d
<1>e. c.tail = kBufferOffset + ReadableBytes(b)
  BY <1>3 DEF ct
<1> HIDE DEF c
<1>5. BufOK(c)
  BY <1>1, <1>3, <1>4, <1>e DEF BufOK
<1>6. ASSUME NEW i \in 1..(c.tail - c.head) PROVE c.bytes[c.head + i] = Unread(b)[i]
  <2>1. /\ kBufferOffset + i \in 1..Len(b.bytes)
        /\ kBufferOffset < kBufferOffset + i /\ kBufferOffset + i <= kBufferOffset + ReadableBytes(b)
        /\ kBufferOffset + i - kBufferOffset = i
    BY <1>1, <1>3, <1>e
  <2> DEFINE k == kBufferOffset + i
  <2>k. k = kBufferOffset + i
    OBVIOUS
  <2>c. c.head = kBufferOffset
    BY <1>3
  <2> HIDE DEF k
  <2>2. k \in 1..Len(b.bytes) /\ kBufferOffset < k /\ k <= kBufferOffset + ReadableBytes(b)
    BY <2>1, <2>k
  <2>3. c.bytes[k] = Unread(b)[k - kBufferOffset]
    BY <2>2, <1>4
  <2>d. k - kBufferOffset = i
    BY <2>1, <2>k, <1>1
  <2>4. Unread(b)[k - kBufferOffset] = Unread(b)[i]
    BY <2>d, Zenon
  <2>5. c.head + i = k
    BY <2>k, <2>c, Zenon
  <2> QED
    BY <2>3, <2>4, <2>5, Zenon
<1>7. Len(Unread(b)) = c.tail - c.head
  BY <1>1, <1>2, <1>3, <1>e
<1>8. Unread(c) = Unread(b)
  BY <1>2, <1>5, <1>6, <1>7, UnreadEquals
<1>9. WritableBytes(c) = Len(b.bytes) - kBufferOffset - ReadableBytes(b)
  BY <1>1, <1>3, <1>4, <1>e DEF WritableBytes, Size
<1> QED
  BY <1>5, <1>8, <1>9 DEF c

--------------------------------------------------------------------------------
(* Room, whichever way it is made.                                         *)

\* EnsureWritableBytes makes room for len bytes and leaves the unread ones.
LEMMA EnsureOK ==
    ASSUME NEW b, BufOK(b), NEW len \in Nat
    PROVE  /\ BufOK(EnsureWritableBytes(b, len))
           /\ Unread(EnsureWritableBytes(b, len)) = Unread(b)
           /\ len <= WritableBytes(EnsureWritableBytes(b, len))
<1> DEFINE need == kBufferOffset + ReadableBytes(b) + len
           big == IF Size(b) * 2 > need THEN Size(b) * 2 ELSE need
           c == EnsureWritableBytes(b, len)
<1>1. /\ b.bytes \in Seq(Byte) /\ Len(b.bytes) \in Nat /\ kBufferOffset \in Nat
      /\ b.head \in Nat /\ b.tail \in Nat /\ b.head <= b.tail /\ b.tail <= Len(b.bytes)
      /\ ReadableBytes(b) = b.tail - b.head /\ ReadableBytes(b) \in Nat
      /\ WritableBytes(b) = Len(b.bytes) - b.tail /\ WritableBytes(b) \in Nat
      /\ Unread(b) \in Seq(Byte) /\ Len(Unread(b)) = ReadableBytes(b)
  <2>1. Unread(b) \in Seq(Byte) /\ kBufferOffset \in Nat
    BY UnreadIs, BufferAssumption
  <2> QED
    BY <2>1, Numbers
<1>2. CASE WritableBytes(b) >= len
  <2>1. c = b
    <3>1. ~(WritableBytes(b) < len)
      BY <1>1, <1>2
    <3> QED
      BY <1>2, <3>1 DEF EnsureWritableBytes
  <2> QED
    BY <1>1, <1>2, <2>1
<1>3. CASE ~(WritableBytes(b) >= len) /\ b.head + WritableBytes(b) >= len + kBufferOffset
  <2>1. c = MoveToFront(b)
    <3>1. WritableBytes(b) < len
      BY <1>1, <1>3
    <3> QED
      BY <1>3, <3>1 DEF EnsureWritableBytes
  <2>2. kBufferOffset + ReadableBytes(b) <= Len(b.bytes)
    BY <1>1, <1>3
  <2>3. len <= Len(b.bytes) - kBufferOffset - ReadableBytes(b)
    BY <1>1, <1>3
  <2> QED
    BY <2>1, <2>2, <2>3, MoveOK
<1>4. CASE ~(WritableBytes(b) >= len) /\ ~(b.head + WritableBytes(b) >= len + kBufferOffset)
  <2> DEFINE n == NewBuffer(big)
  <2>1. c = Store(n, Unread(b))
    BY <1>4 DEF EnsureWritableBytes
  <2>2. big \in Nat /\ need <= big
    BY SMTT(30), <1>1 DEF Size
  <2> HIDE DEF big
  <2>3. /\ kBufferOffset <= big /\ ReadableBytes(b) + len <= big
    BY <1>1, <2>2
  <2>4. BufOK(n) /\ Unread(n) = <<>> /\ WritableBytes(n) = big
    BY <2>2, <2>3, NewOK
  <2>5. Len(Unread(b)) <= WritableBytes(n)
    BY <1>1, <2>2, <2>3, <2>4
  <2> HIDE DEF n
  <2>6. /\ BufOK(c) /\ Unread(c) = <<>> \o Unread(b)
        /\ WritableBytes(c) = WritableBytes(n) - Len(Unread(b))
    BY <1>1, <2>1, <2>4, <2>5, StoreOK
  <2>7. Unread(c) = Unread(b)
    BY <1>1, <2>6, ConcatEmptySeq
  <2>8. len <= WritableBytes(c)
    BY <1>1, <2>2, <2>3, <2>4, <2>6
  <2> QED
    BY <2>6, <2>7, <2>8
<1> QED
  BY <1>2, <1>3, <1>4

\* Append adds its bytes at the end, however many they are.
LEMMA AppendOK ==
    ASSUME NEW b, BufOK(b), NEW s \in Seq(Byte)
    PROVE  /\ BufOK(AppendBytes(b, s))
           /\ Unread(AppendBytes(b, s)) = Unread(b) \o s
<1> DEFINE c == EnsureWritableBytes(b, Len(s))
<1>1. Len(s) \in Nat
  BY LenProperties
<1>2. BufOK(c) /\ Unread(c) = Unread(b) /\ Len(s) <= WritableBytes(c)
  BY <1>1, EnsureOK
<1> HIDE DEF c
<1>3. BufOK(Store(c, s)) /\ Unread(Store(c, s)) = Unread(c) \o s
  BY <1>2, StoreOK
<1> QED
  BY <1>2, <1>3 DEF AppendBytes, c

--------------------------------------------------------------------------------
(* Reading, taking back, and writing in front.                             *)

\* A part of a part is a part, counted from the head.
LEMMA PartOfPart ==
    ASSUME NEW s \in Seq(Byte), NEW h \in Nat, NEW t \in Nat, t <= Len(s),
           NEW p \in 1..(t - h), NEW q \in 1..(t - h)
    PROVE  SubSeq(SubSeq(s, h + 1, t), p, q) = SubSeq(s, h + p, h + q)
<1> DEFINE i == h + 1
<1>1. Len(s) \in Nat
  BY LenProperties
<1>2. /\ i \in 1..Len(s) /\ t \in 1..Len(s)
      /\ p \in 1..t - i + 1 /\ q \in 1..t - i + 1
      /\ i + p - 1 = h + p /\ i + q - 1 = h + q
  BY <1>1
<1> HIDE DEF i
<1>3. SubSeq(SubSeq(s, i, t), p, q) = SubSeq(s, i + p - 1, i + q - 1)
  BY <1>2, SubSeqOfSubSeq
<1> QED
  BY <1>2, <1>3 DEF i

\* Retrieve takes the first len bytes and leaves the rest.
LEMMA RetrieveOK ==
    ASSUME NEW b, BufOK(b), NEW len \in Nat, len <= ReadableBytes(b)
    PROVE  /\ BufOK(Retrieve(b, len))
           /\ Unread(Retrieve(b, len)) = SubSeq(Unread(b), len + 1, Len(Unread(b)))
<1> DEFINE c == Retrieve(b, len)
<1>1. /\ b.bytes \in Seq(Byte) /\ Len(b.bytes) \in Nat /\ kBufferOffset \in Nat
      /\ b.head \in Nat /\ b.tail \in Nat /\ b.head <= b.tail /\ b.tail <= Len(b.bytes)
      /\ b.cap \in Nat /\ kBufferOffset <= b.cap /\ b.cap <= Len(b.bytes)
      /\ ReadableBytes(b) = b.tail - b.head /\ Len(Unread(b)) = b.tail - b.head
  BY Numbers, BufferAssumption
<1>2. b \in Buffer
  BY DEF BufOK
<1>3. CASE len >= ReadableBytes(b)
  <2> DEFINE cb == IF Size(b) > 2 * b.cap THEN SubSeq(b.bytes, 1, b.cap) ELSE b.bytes
  <2>1. c = [b EXCEPT !.bytes = cb, !.head = kBufferOffset, !.tail = kBufferOffset]
    BY <1>3 DEF Retrieve, RetrieveAll
  <2>2. /\ SubSeq(b.bytes, 1, b.cap) \in Seq(Byte)
        /\ Len(SubSeq(b.bytes, 1, b.cap)) = b.cap
    <3>1. b.cap \in 0..Len(b.bytes) /\ b.bytes \in [1..Len(b.bytes) -> Byte]
      BY <1>1, LenProperties
    <3>2. \A i \in 1..b.cap : b.bytes[i] \in Byte
      BY <1>1, <3>1
    <3> DEFINE q == SubSeq(b.bytes, 1, b.cap)
    <3>3. /\ q \in Seq(Byte)
          /\ Len(q) = IF 1 <= b.cap THEN b.cap - 1 + 1 ELSE 0
      BY <1>1, <3>1, <3>2, SubSeqProperties
    <3> HIDE DEF q
    <3>4. Len(q) = b.cap
      BY <1>1, <3>3
    <3> QED
      BY <3>3, <3>4 DEF q
  <2>3. cb \in Seq(Byte) /\ b.cap <= Len(cb)
    BY <1>1, <2>2
  <2> HIDE DEF cb, c
  <2>4. /\ c.bytes = cb /\ c.head = kBufferOffset /\ c.tail = kBufferOffset /\ c.cap = b.cap
        /\ c \in Buffer
    BY <1>1, <1>2, <2>1, <2>3 DEF Buffer
  <2>5. BufOK(c)
    BY <1>1, <2>3, <2>4, LenProperties DEF BufOK
  <2>6. Unread(c) = <<>>
    BY <1>1, <2>4, <2>5, UnreadIs, EmptySeq
  <2>7. SubSeq(Unread(b), len + 1, Len(Unread(b))) = <<>>
    <3>1. Len(Unread(b)) < len + 1 /\ len + 1 \in Int /\ Len(Unread(b)) \in Int
      BY <1>1, <1>3
    <3> QED
      BY <3>1, SubSeqEmpty
  <2> QED
    BY <2>5, <2>6, <2>7 DEF c
<1>4. CASE ~(len >= ReadableBytes(b))
  <2> DEFINE h == b.head + len
  <2>1. c = [b EXCEPT !.head = h]
    BY <1>4 DEF Retrieve
  <2>2. h \in Nat /\ h < b.tail
    BY <1>1, <1>4
  <2> HIDE DEF h, c
  <2>3. /\ c.bytes = b.bytes /\ c.head = h /\ c.tail = b.tail /\ c.cap = b.cap
        /\ c \in Buffer
    BY <1>1, <1>2, <2>1, <2>2 DEF Buffer
  <2>4. BufOK(c)
    BY <1>1, <2>2, <2>3 DEF BufOK
  <2>5. /\ len + 1 \in 1..(b.tail - b.head) /\ b.tail - b.head \in 1..(b.tail - b.head)
        /\ b.head + (len + 1) = b.head + len + 1 /\ b.head + (b.tail - b.head) = b.tail
    BY <1>1, <1>4
  <2>6. SubSeq(SubSeq(b.bytes, b.head + 1, b.tail), len + 1, b.tail - b.head)
          = SubSeq(b.bytes, b.head + (len + 1), b.head + (b.tail - b.head))
    BY <1>1, <2>5, PartOfPart
  <2>7. Unread(c) = SubSeq(b.bytes, b.head + len + 1, b.tail)
    BY <2>3 DEF Unread, h
  <2>8. SubSeq(Unread(b), len + 1, b.tail - b.head) = SubSeq(b.bytes, b.head + len + 1, b.tail)
    BY <2>5, <2>6 DEF Unread
  <2> QED
    BY <1>1, <2>4, <2>7, <2>8 DEF c
<1> QED
  BY <1>3, <1>4

\* Unwrite takes len bytes back from the end.
LEMMA UnwriteOK ==
    ASSUME NEW b, BufOK(b), NEW len \in Nat, len <= ReadableBytes(b)
    PROVE  /\ BufOK([b EXCEPT !.tail = b.tail - len])
           /\ Unread([b EXCEPT !.tail = b.tail - len]) = SubSeq(Unread(b), 1, Len(Unread(b)) - len)
<1> DEFINE t == b.tail - len
           c == [b EXCEPT !.tail = t]
<1>1. /\ b.bytes \in Seq(Byte) /\ Len(b.bytes) \in Nat /\ kBufferOffset \in Nat
      /\ b.head \in Nat /\ b.tail \in Nat /\ b.head <= b.tail /\ b.tail <= Len(b.bytes)
      /\ b.cap \in Nat /\ kBufferOffset <= b.cap /\ b.cap <= Len(b.bytes)
      /\ ReadableBytes(b) = b.tail - b.head /\ Len(Unread(b)) = b.tail - b.head
  BY Numbers, BufferAssumption
<1>2. b \in Buffer
  BY DEF BufOK
<1>3. t \in Nat /\ b.head <= t /\ t <= b.tail /\ t - b.head = b.tail - b.head - len
  BY <1>1
<1>4. /\ c.bytes = b.bytes /\ c.head = b.head /\ c.tail = t /\ c.cap = b.cap /\ c \in Buffer
  <2> HIDE DEF t
  <2> QED
    BY <1>1, <1>2, <1>3 DEF Buffer
<1> HIDE DEF c
<1>5. BufOK(c)
  BY <1>1, <1>3, <1>4 DEF BufOK
<1>6. Unread(c) = SubSeq(b.bytes, b.head + 1, t)
  BY <1>4 DEF Unread
<1> HIDE DEF t
<1>7. SubSeq(Unread(b), 1, t - b.head) = SubSeq(b.bytes, b.head + 1, t)
  <2>1. CASE t = b.head
    <3>1. t - b.head < 1 /\ t - b.head \in Int /\ t < b.head + 1 /\ t \in Int /\ b.head + 1 \in Int
      BY <1>1, <1>3, <2>1
    <3>2. SubSeq(Unread(b), 1, t - b.head) = <<>>
      BY <3>1, SubSeqEmpty
    <3>3. SubSeq(b.bytes, b.head + 1, t) = <<>>
      BY <3>1, SubSeqEmpty
    <3> QED
      BY <3>2, <3>3
  <2>2. CASE t # b.head
    <3>1. /\ 1 \in 1..(b.tail - b.head) /\ t - b.head \in 1..(b.tail - b.head)
          /\ b.head + (t - b.head) = t
      BY SMTT(30), <1>1, <1>3, <2>2
    <3>2. SubSeq(SubSeq(b.bytes, b.head + 1, b.tail), 1, t - b.head)
            = SubSeq(b.bytes, b.head + 1, b.head + (t - b.head))
      BY <1>1, <3>1, PartOfPart
    <3> QED
      BY <3>1, <3>2 DEF Unread
  <2> QED
    BY <2>1, <2>2
<1>8. Unread(c) = SubSeq(Unread(b), 1, Len(Unread(b)) - len)
  BY <1>1, <1>3, <1>6, <1>7
<1> QED
  BY <1>5, <1>8 DEF c, t

\* A buffer whose bytes from the head on are those of s and then those of v.
LEMMA FrontEquals ==
    ASSUME NEW c, BufOK(c), NEW s \in Seq(Byte), NEW v \in Seq(Byte),
           Len(s) + Len(v) = c.tail - c.head,
           \A i \in 1..Len(s) : c.bytes[c.head + i] = s[i],
           \A i \in 1..Len(v) : c.bytes[c.head + Len(s) + i] = v[i]
    PROVE  Unread(c) = s \o v
<1> DEFINE u == s \o v
<1>1. /\ Len(s) \in Nat /\ Len(v) \in Nat /\ c.head \in Nat /\ c.tail \in Nat
  BY Numbers, LenProperties
<1>2. /\ u \in Seq(Byte) /\ Len(u) = Len(s) + Len(v)
      /\ \A i \in 1..Len(s) + Len(v) : u[i] = IF i <= Len(s) THEN s[i] ELSE v[i - Len(s)]
  BY ConcatProperties
<1> HIDE DEF u
<1>3. ASSUME NEW i \in 1..(c.tail - c.head) PROVE c.bytes[c.head + i] = u[i]
  <2>1. i \in 1..Len(s) + Len(v)
    BY <1>1
  <2>2. CASE i <= Len(s)
    <3>1. i \in 1..Len(s)
      BY <1>1, <2>2
    <3> QED
      BY <1>2, <2>1, <2>2, <3>1
  <2>3. CASE ~(i <= Len(s))
    <3>1. i - Len(s) \in 1..Len(v) /\ c.head + Len(s) + (i - Len(s)) = c.head + i
      BY <1>1, <2>1, <2>3
    <3>2. c.bytes[c.head + Len(s) + (i - Len(s))] = v[i - Len(s)]
      BY <3>1
    <3> QED
      BY <1>2, <2>1, <2>3, <3>1, <3>2
  <2> QED
    BY <2>2, <2>3
<1> QED
  BY <1>2, <1>3, UnreadEquals DEF u

--------------------------------------------------------------------------------
(* The steps.                                                              *)

\* What AddInFront does to a buffer that has room before its head.
FrontRoom(b, s) == [b EXCEPT !.bytes = Copy(@, b.head - Len(s), s), !.head = @ - Len(s)]

\* Prepending within the space before the reader.
LEMMA FrontRoomOK ==
    ASSUME NEW b, BufOK(b), NEW s \in Seq(Byte), b.head >= Len(s)
    PROVE  BufOK(FrontRoom(b, s)) /\ Unread(FrontRoom(b, s)) = s \o Unread(b)
<1> DEFINE c == FrontRoom(b, s)
           h == b.head - Len(s)
           cb == Copy(b.bytes, h, s)
           v == Unread(b)
<1>1. /\ b.bytes \in Seq(Byte) /\ Len(b.bytes) \in Nat /\ Len(s) \in Nat
      /\ b.head \in Nat /\ b.tail \in Nat /\ b.head <= b.tail /\ b.tail <= Len(b.bytes)
      /\ b.cap \in Nat /\ kBufferOffset <= b.cap /\ b.cap <= Len(b.bytes)
  BY Numbers, LenProperties
<1>2. b \in Buffer
  BY DEF BufOK
<1>3. h \in Nat /\ b.head = h + Len(s)
  BY <1>1
<1> HIDE DEF h
<1>4. /\ cb \in Seq(Byte) /\ Len(cb) = Len(b.bytes)
      /\ \A i \in 1..Len(b.bytes) :
           cb[i] = IF h < i /\ i <= h + Len(s) THEN s[i - h] ELSE b.bytes[i]
  BY <1>1, <1>3, CopyIs
<1> HIDE DEF cb
<1>5. c = [b EXCEPT !.bytes = cb, !.head = h]
  BY DEF FrontRoom, cb, h
<1> HIDE DEF c
<1>6. /\ c.bytes = cb /\ c.head = h /\ c.tail = b.tail /\ c.cap = b.cap /\ c \in Buffer
  BY <1>1, <1>2, <1>3, <1>4, <1>5 DEF Buffer
<1>7. BufOK(c)
  BY <1>1, <1>3, <1>4, <1>6 DEF BufOK
<1>8. /\ v \in Seq(Byte) /\ Len(v) = b.tail - b.head
      /\ \A i \in 1..(b.tail - b.head) : v[i] = b.bytes[b.head + i]
  BY UnreadIs
<1> HIDE DEF v
<1>9. Len(s) + Len(v) = c.tail - c.head
  BY <1>1, <1>3, <1>6, <1>8
<1>10. ASSUME NEW i \in 1..Len(s) PROVE c.bytes[c.head + i] = s[i]
  <2> DEFINE k == h + i
  <2>1. k \in 1..Len(b.bytes) /\ h < k /\ k <= h + Len(s) /\ k - h = i /\ c.head + i = k
    BY <1>1, <1>3, <1>6
  <2> HIDE DEF k
  <2>2. cb[k] = s[i]
    BY <1>4, <2>1
  <2> QED
    BY <1>6, <2>1, <2>2
<1>11. ASSUME NEW i \in 1..Len(v) PROVE c.bytes[c.head + Len(s) + i] = v[i]
  <2> DEFINE k == b.head + i
  <2>1. /\ k \in 1..Len(b.bytes) /\ ~(k <= h + Len(s)) /\ c.head + Len(s) + i = k
        /\ i \in 1..(b.tail - b.head)
    BY <1>1, <1>3, <1>6, <1>8
  <2>2. v[i] = b.bytes[k]
    BY <1>8, <2>1
  <2> HIDE DEF k
  <2>3. cb[k] = v[i]
    BY <1>4, <2>1, <2>2
  <2> QED
    BY <1>6, <2>1, <2>3
<1>12. Unread(c) = s \o v
  <2>1. \A i \in 1..Len(s) : c.bytes[c.head + i] = s[i]
    BY <1>10
  <2>2. \A i \in 1..Len(v) : c.bytes[c.head + Len(s) + i] = v[i]
    BY <1>11
  <2> QED
    BY <1>7, <1>8, <1>9, <2>1, <2>2, FrontEquals
<1> QED
  BY <1>7, <1>12 DEF v, c

\* What it does to one that has room only after its tail.
FrontMove(b, s) ==
    [b EXCEPT !.bytes = Copy(Copy(@, b.head + Len(s), Unread(b)), b.head, s), !.tail = @ + Len(s)]

\* Prepending by moving the unread bytes up first.
LEMMA FrontMoveOK ==
    ASSUME NEW b, BufOK(b), NEW s \in Seq(Byte), Len(s) <= WritableBytes(b)
    PROVE  BufOK(FrontMove(b, s)) /\ Unread(FrontMove(b, s)) = s \o Unread(b)
<1> DEFINE c == FrontMove(b, s)
           v == Unread(b)
           m == b.head + Len(s)
           mb == Copy(b.bytes, m, v)
           cb == Copy(mb, b.head, s)
           t == b.tail + Len(s)
<1>1. /\ b.bytes \in Seq(Byte) /\ Len(b.bytes) \in Nat /\ Len(s) \in Nat
      /\ b.head \in Nat /\ b.tail \in Nat /\ b.head <= b.tail /\ t <= Len(b.bytes)
      /\ b.cap \in Nat /\ kBufferOffset <= b.cap /\ b.cap <= Len(b.bytes)
  BY Numbers, LenProperties
<1>2. b \in Buffer
  BY DEF BufOK
<1>3. /\ v \in Seq(Byte) /\ Len(v) = b.tail - b.head
  BY UnreadIs
<1>4. m \in Nat /\ m = b.head + Len(s) /\ t \in Nat /\ t = b.tail + Len(s) /\ t = m + Len(v)
  BY <1>1, <1>3
<1>5. c = [b EXCEPT !.bytes = cb, !.tail = t]
  BY DEF FrontMove
<1> HIDE DEF v, m, t, c
<1>6. /\ mb \in Seq(Byte) /\ Len(mb) = Len(b.bytes)
      /\ \A i \in 1..Len(b.bytes) :
           mb[i] = IF m < i /\ i <= m + Len(v) THEN v[i - m] ELSE b.bytes[i]
  <2>1. b.bytes \in Seq(Byte) /\ m \in Nat /\ v \in Seq(Byte)
    BY <1>1, <1>3, <1>4
  <2> QED
    BY <2>1, CopyIs, Zenon
<1> HIDE DEF mb
<1>7. /\ cb \in Seq(Byte) /\ Len(cb) = Len(b.bytes)
      /\ \A i \in 1..Len(b.bytes) :
           cb[i] = IF b.head < i /\ i <= b.head + Len(s) THEN s[i - b.head] ELSE mb[i]
  <2>1. /\ cb \in Seq(Byte) /\ Len(cb) = Len(mb)
        /\ \A i \in 1..Len(mb) :
             cb[i] = IF b.head < i /\ i <= b.head + Len(s) THEN s[i - b.head] ELSE mb[i]
    <3>1. mb \in Seq(Byte) /\ b.head \in Nat
      BY <1>1, <1>6
    <3> QED
      BY <3>1, CopyIs, Zenon
  <2> HIDE DEF cb
  <2> QED
    BY <2>1, <1>6
<1> HIDE DEF cb
<1>8. /\ c.bytes = cb /\ c.head = b.head /\ c.tail = t /\ c.cap = b.cap /\ c \in Buffer
  BY <1>1, <1>2, <1>4, <1>5, <1>7 DEF Buffer
<1>9. BufOK(c)
  BY SMTT(30), <1>1, <1>4, <1>7, <1>8 DEF BufOK
<1>10. Len(s) + Len(v) = c.tail - c.head
  BY SMTT(30), <1>1, <1>3, <1>4, <1>8
<1>a. /\ Len(b.bytes) \in Nat /\ Len(s) \in Nat /\ Len(v) \in Nat /\ b.head \in Nat /\ m \in Nat
      /\ m = b.head + Len(s) /\ m + Len(v) <= Len(b.bytes)
  BY <1>1, <1>3, <1>4
<1>11. ASSUME NEW i \in 1..Len(s) PROVE c.bytes[c.head + i] = s[i]
  <2> DEFINE k == b.head + i
  <2>1. /\ k \in 1..Len(b.bytes) /\ b.head < k /\ k <= b.head + Len(s) /\ k - b.head = i
    BY SMTT(30), <1>a
  <2>a. c.head + i = k
    BY <1>8
  <2> HIDE DEF k
  <2>2. cb[k] = s[i]
    BY <1>7, <2>1
  <2> QED
    BY <1>8, <2>a, <2>2
<1>12. ASSUME NEW i \in 1..Len(v) PROVE c.bytes[c.head + Len(s) + i] = v[i]
  <2> DEFINE k == m + i
  <2>1. /\ k \in 1..Len(b.bytes) /\ ~(k <= b.head + Len(s))
        /\ m < k /\ k <= m + Len(v) /\ k - m = i
    BY SMTT(30), <1>a
  <2>a. c.head + Len(s) + i = k
    BY <1>4, <1>8
  <2> HIDE DEF k
  <2>2. cb[k] = mb[k] /\ mb[k] = v[i]
    BY <1>6, <1>7, <2>1
  <2> QED
    BY <1>8, <2>a, <2>2
<1>13. Unread(c) = s \o v
  <2>1. \A i \in 1..Len(s) : c.bytes[c.head + i] = s[i]
    BY <1>11
  <2>2. \A i \in 1..Len(v) : c.bytes[c.head + Len(s) + i] = v[i]
    BY <1>12
  <2> QED
    BY <1>3, <1>9, <1>10, <2>1, <2>2, FrontEquals
<1> QED
  BY <1>9, <1>13 DEF v, c

\* AddInFront is a write in front.
LEMMA FrontStep ==
    ASSUME BufOK(buf), NEW s \in Seq(Byte), AddInFront(s)
    PROVE  BufOK(buf') /\ Unread(buf') = s \o Unread(buf) /\ read' = read
<1>1. /\ buf.head \in Nat /\ buf.cap \in Nat /\ Len(s) \in Nat /\ WritableBytes(buf) \in Nat
      /\ ReadableBytes(buf) \in Nat /\ kBufferOffset <= buf.cap /\ kBufferOffset \in Nat
      /\ Unread(buf) \in Seq(Byte)
  <2>1. Unread(buf) \in Seq(Byte) /\ Len(s) \in Nat /\ kBufferOffset \in Nat
    BY UnreadIs, LenProperties, BufferAssumption
  <2> QED
    BY <2>1, Numbers
<1>2. read' = read
  BY DEF AddInFront
<1>3. CASE buf.head >= Len(s)
  <2>1. ~(buf.head < Len(s))
    BY <1>1, <1>3
  <2>2. buf' = FrontRoom(buf, s)
    BY <1>3, <2>1 DEF AddInFront, FrontRoom
  <2> QED
    BY <1>2, <1>3, <2>2, FrontRoomOK
<1>4. CASE ~(buf.head >= Len(s)) /\ Len(s) <= WritableBytes(buf)
  <2>1. buf.head < Len(s)
    BY <1>1, <1>4
  <2>2. buf' = FrontMove(buf, s)
    BY <1>4, <2>1 DEF AddInFront, FrontMove
  <2> QED
    BY <1>2, <1>4, <2>2, FrontMoveOK
<1>5. CASE ~(buf.head >= Len(s)) /\ ~(Len(s) <= WritableBytes(buf))
  <2> DEFINE new == IF Len(s) + ReadableBytes(buf) < buf.cap THEN buf.cap
                    ELSE Len(s) + ReadableBytes(buf)
             n == NewBuffer(new)
             d == AppendBytes(n, s)
  <2>1. buf' = AppendBytes(d, Unread(buf))
    BY <1>5 DEF AddInFront
  <2>2. new \in Nat /\ kBufferOffset <= new
    BY <1>1
  <2> HIDE DEF new
  <2>3. BufOK(n) /\ Unread(n) = <<>>
    BY <2>2, NewOK
  <2> HIDE DEF n
  <2>4. BufOK(d) /\ Unread(d) = <<>> \o s
    BY <2>3, AppendOK
  <2> HIDE DEF d
  <2>5. Unread(d) = s
    BY <2>4, ConcatEmptySeq
  <2>6. BufOK(AppendBytes(d, Unread(buf)))
        /\ Unread(AppendBytes(d, Unread(buf))) = Unread(d) \o Unread(buf)
    BY <1>1, <2>4, AppendOK
  <2> QED
    BY <1>2, <2>1, <2>5, <2>6
<1> QED
  BY <1>3, <1>4, <1>5

\* ReadFd adds what it reads at the end, even what went through the stack.
LEMMA ReadFdStep ==
    ASSUME BufOK(buf), NEW s \in Seq(Byte), ReadFd(s)
    PROVE  BufOK(buf') /\ Unread(buf') = Unread(buf) \o s /\ read' = read
<1> DEFINE w == WritableBytes(buf)
<1>1. w \in Nat /\ Len(s) \in Nat /\ Unread(buf) \in Seq(Byte)
  BY Numbers, UnreadIs, LenProperties
<1>2. read' = read
  BY DEF ReadFd
<1>3. CASE Len(s) <= w
  <2>1. buf' = Store(buf, s)
    BY <1>3 DEF ReadFd
  <2> QED
    BY <1>2, <1>3, <2>1, StoreOK
<1>4. CASE ~(Len(s) <= w)
  <2> DEFINE x == SubSeq(s, 1, w)
             y == SubSeq(s, w + 1, Len(s))
             d == Store(buf, x)
  <2>1. buf' = AppendBytes(d, y)
    BY <1>4 DEF ReadFd
  <2>2. /\ 1 \in 1..Len(s)+1 /\ w \in 1-1..Len(s) /\ Len(s) \in w..Len(s)
    BY <1>1, <1>4
  <2>3. x \o y = SubSeq(s, 1, Len(s))
    BY <2>2, ConcatAdjacentSubSeq
  <2>4. SubSeq(s, 1, Len(s)) = s
    BY SubSeqFull
  <2>5. x \in Seq(Byte) /\ Len(x) <= w
    <3>1. \A i \in 1..w : s[i] \in Byte
      <4>1. \A i \in 1..w : i \in 1..Len(s)
        BY <1>1, <1>4
      <4> QED
        BY <4>1, ElementOfSeq
    <3>2. /\ x \in Seq(Byte) /\ Len(x) = IF 1 <= w THEN w - 1 + 1 ELSE 0
      BY <1>1, <2>2, <3>1, SubSeqProperties
    <3> HIDE DEF x, w
    <3> QED
      BY <1>1, <3>2
  <2>6. y \in Seq(Byte)
    <3> DEFINE j == w + 1
    <3>1. j \in 1..Len(s)+1 /\ Len(s) \in j-1..Len(s) /\ \A i \in j..Len(s) : i \in 1..Len(s)
      BY <1>1, <1>4
    <3>2. \A i \in j..Len(s) : s[i] \in Byte
      BY <3>1, ElementOfSeq
    <3> HIDE DEF j
    <3>3. SubSeq(s, j, Len(s)) \in Seq(Byte)
      BY <3>1, <3>2, SubSeqProperties
    <3> QED
      BY <3>3 DEF j
  <2> HIDE DEF x, y
  <2>7. BufOK(d) /\ Unread(d) = Unread(buf) \o x
    BY <2>5, StoreOK
  <2> HIDE DEF d
  <2>8. BufOK(AppendBytes(d, y)) /\ Unread(AppendBytes(d, y)) = (Unread(buf) \o x) \o y
    BY <2>6, <2>7, AppendOK
  <2>9. (Unread(buf) \o x) \o y = Unread(buf) \o (x \o y)
    BY SMTT(30), <1>1, <2>5, <2>6, ConcatAssociative
  <2> QED
    BY <1>2, <2>1, <2>3, <2>4, <2>8, <2>9
<1> QED
  BY <1>3, <1>4

\* A write of the model is a sequence of at least one byte.
LEMMA WriteIs ==
    ASSUME NEW s \in Writes
    PROVE  s \in Seq(Byte) /\ Len(s) \in Nat \ {0} /\ s \in [1..Len(s) -> Byte]
<1>1. PICK n \in 1..MaxWrite : s \in [1..n -> Byte]
  BY DEF Writes
<1>2. n \in Nat \ {0}
  BY BufferAssumption
<1>3. s \in Seq(Byte) /\ Len(s) = n
  BY <1>1, <1>2, ByteSeq
<1> QED
  BY <1>1, <1>2, <1>3

\* A buffer that has got s at its end, or in front, has made a step of the queue.
LEMMA PutStep ==
    ASSUME NEW s \in Writes, Unread(buf) \in Seq(Byte), read' = read,
           \/ Unread(buf)' = Unread(buf) \o s
           \/ Unread(buf)' = s \o Unread(buf)
    PROVE  Queue!QueueNext
<1> DEFINE n == Len(s)
<1>1. s \in Seq(Byte) /\ n \in Nat \ {0} /\ s \in [1..n -> Byte] /\ Len(Unread(buf)) \in Nat
  BY WriteIs, LenProperties
<1>2. Len(Unread(buf)') = Len(Unread(buf)) + n
  BY <1>1, ConcatProperties
<1>3. n \in 1..Len(Unread(buf)')
  BY <1>1, <1>2
<1>4. Queue!Put(s) \/ Queue!PutFront(s)
  BY DEF Queue!Put, Queue!PutFront
<1> QED
  BY <1>1, <1>3, <1>4 DEF Queue!QueueNext

\* The buffer stays well formed, and each of its steps is a step of the queue.
LEMMA StepIsQueueStep ==
    ASSUME BufOK(buf), [BufferNext]_bufVars
    PROVE  BufOK(buf') /\ [Queue!QueueNext]_<<Unread(buf), read>>
<1>1. /\ Unread(buf) \in Seq(Byte) /\ ReadableBytes(buf) \in Nat
      /\ Len(Unread(buf)) = ReadableBytes(buf)
  BY Numbers, UnreadIs
<1>2. ASSUME NEW s \in Writes, AppendTo(s)
      PROVE  BufOK(buf') /\ Queue!QueueNext
  <2>1. buf' = AppendBytes(buf, s) /\ read' = read
    BY <1>2 DEF AppendTo
  <2>2. BufOK(buf') /\ Unread(buf') = Unread(buf) \o s
    BY <2>1, WriteIs, AppendOK
  <2>3. Unread(buf)' = Unread(buf')
    BY DEF Unread
  <2> QED
    BY <1>1, <2>1, <2>2, <2>3, PutStep
<1>3. ASSUME NEW s \in Writes, AddInFront(s)
      PROVE  BufOK(buf') /\ Queue!QueueNext
  <2>1. BufOK(buf') /\ Unread(buf') = s \o Unread(buf) /\ read' = read
    BY <1>3, WriteIs, FrontStep
  <2>2. Unread(buf)' = Unread(buf')
    BY DEF Unread
  <2> QED
    BY <1>1, <2>1, <2>2, PutStep
<1>4. ASSUME NEW s \in Writes, ReadFd(s)
      PROVE  BufOK(buf') /\ Queue!QueueNext
  <2>1. BufOK(buf') /\ Unread(buf') = Unread(buf) \o s /\ read' = read
    BY <1>4, WriteIs, ReadFdStep
  <2>2. Unread(buf)' = Unread(buf')
    BY DEF Unread
  <2> QED
    BY <1>1, <2>1, <2>2, PutStep
<1>5. ASSUME NEW len \in 1..MaxWrite, ReadBytes(len)
      PROVE  BufOK(buf') /\ Queue!QueueNext
  <2> DEFINE n == IF len > ReadableBytes(buf) THEN ReadableBytes(buf) ELSE len
  <2>1. n \in Nat /\ n <= ReadableBytes(buf)
    BY <1>1
  <2>2. read' = SubSeq(Unread(buf), 1, n) /\ buf' = Retrieve(buf, n)
    BY <1>5 DEF ReadBytes
  <2> HIDE DEF n
  <2>3. BufOK(buf') /\ Unread(buf') = SubSeq(Unread(buf), n + 1, Len(Unread(buf)))
    BY <2>1, <2>2, RetrieveOK
  <2>4. Unread(buf)' = Unread(buf')
    BY DEF Unread
  <2>5. Queue!Get(n) /\ n \in 0..Len(Unread(buf))
    BY <1>1, <2>1, <2>2, <2>3, <2>4 DEF Queue!Get
  <2> QED
    BY <2>3, <2>5 DEF Queue!QueueNext
<1>6. ASSUME NEW len \in 1..MaxWrite, Unwrite(len)
      PROVE  BufOK(buf') /\ Queue!QueueNext
  <2>1. len \in Nat /\ len <= ReadableBytes(buf)
    BY <1>6 DEF Unwrite
  <2>2. buf' = [buf EXCEPT !.tail = buf.tail - len] /\ read' = read
    BY <1>6 DEF Unwrite
  <2>3. BufOK(buf') /\ Unread(buf') = SubSeq(Unread(buf), 1, Len(Unread(buf)) - len)
    BY <2>1, <2>2, UnwriteOK
  <2>4. Unread(buf)' = Unread(buf')
    BY DEF Unread
  <2>5. len \in 0..Len(Unread(buf))
    BY <1>1, <2>1
  <2>6. Queue!Unput(len)
    BY <2>2, <2>3, <2>4, Zenon DEF Queue!Unput
  <2> QED
    BY <2>3, <2>5, <2>6 DEF Queue!QueueNext
<1>7. CASE UNCHANGED bufVars
  BY <1>7 DEF bufVars, BufOK, Unread
<1> QED
  BY <1>2, <1>3, <1>4, <1>5, <1>6, <1>7 DEF BufferNext

\* MsgBuffer implements the byte queue: whatever is appended, put in front, read
\* from a socket, read out or taken back, and however the buffer made the room, no
\* unread byte is lost, repeated or reordered (MsgBuffer.cpp, MsgBuffer.h).
THEOREM BufferIsQueue == BufferSpec => IsByteQueue
<1>1. BufferInit => BufOK(buf) /\ Queue!QueueInit
  <2> SUFFICES ASSUME BufferInit PROVE BufOK(buf) /\ Unread(buf) = <<>> /\ read = <<>>
    BY DEF Queue!QueueInit
  <2>1. BufOK(NewBuffer(InitialCap)) /\ Unread(NewBuffer(InitialCap)) = <<>>
    BY BufferAssumption, NewOK
  <2> QED
    BY <2>1 DEF BufferInit
<1>2. BufOK(buf) /\ [BufferNext]_bufVars => BufOK(buf)' /\ [Queue!QueueNext]_<<Unread(buf), read>>
  BY StepIsQueueStep
<1> QED
  BY <1>1, <1>2, PTL DEF BufferSpec, IsByteQueue, Queue!QueueSpec

--------------------------------------------------------------------------------
(* The context of an RTMP connection.                                      *)

IsSeq(q) == \E S : q \in Seq(S)

\* A message that makes at least one chunk.
MsgOK(m) == m.len \in Nat \ {0} /\ m.csid \in Csids /\ m.sid \in Nat /\ m.val \in Nat

\* A cell has a number; a header's cell its chunk stream, a body's its message.
CellOK(x) ==
  /\ x[2] \in Nat
  /\ x[1] = "basic" => x[2] \in 0 .. 3 /\ x[3] \in Csids
  /\ x[1] = "body" => MsgOK(x[3])
CellsOK(q) == IsSeq(q) /\ \A i \in 1 .. Len(q) : CellOK(q[i])

\* What is sent, and what is received.
OutFields == {"st", "hs", "called", "sending", "out_queue", "prev_out", "bufs", "iov", "wire"}
InFields == {"in", "packets", "prev_in", "in_deltas", "in_ext", "in_chunk_size", "ack_size",
             "in_bytes", "last_left", "fed", "acked"}
CtxFields == OutFields \cup InFields

OutType(c) ==
  /\ CtxFields \subseteq DOMAIN c
  /\ c.sending \in BOOLEAN
  /\ CellsOK(c.iov) /\ CellsOK(c.bufs) /\ CellsOK(c.wire)
  /\ IsSeq(c.out_queue) /\ \A i \in 1 .. Len(c.out_queue) : MsgOK(c.out_queue[i])
  /\ DOMAIN c.prev_out = Csids /\ \A s \in Csids : c.prev_out[s] = None \/ c.prev_out[s].ts \in Nat

\* A packet has at most the bytes that it was made for.
PacketOK(k) ==
  /\ {"size", "ts", "body"} \subseteq DOMAIN k
  /\ k.size \in Nat /\ CellsOK(k.body) /\ Len(k.body) <= k.size

InType(c) ==
  /\ CellsOK(c.in)
  /\ DOMAIN c.packets = Csids /\ \A s \in Csids : c.packets[s] = None \/ PacketOK(c.packets[s])
  /\ DOMAIN c.prev_in = Csids /\ \A s \in Csids : c.prev_in[s].len \in Nat
  /\ c.in_chunk_size \in Nat /\ c.ack_size \in Nat
  /\ c.in_bytes \in Nat /\ c.last_left \in Nat /\ c.fed \in Nat /\ c.acked \in Nat

\* Nothing is sent by the context itself before the handshake is done.
Silent(c) == c.sending = FALSE /\ c.out_queue = <<>> /\ c.bufs = <<>> /\ c.called = {}

\* A context that is sending has bytes in the connection, another has nothing at all.
Busy(c) ==
  /\ c.sending = TRUE => c.iov # <<>>
  /\ c.sending = FALSE => c.iov = <<>> /\ c.out_queue = <<>> /\ c.bufs = <<>>

\* In the handshake, who waits for the peer has nothing left to write.
Waits == {"init", "WaitC0C1", "WaitC2", "WaitS0S1", "WaitS2"}

\* Every byte that came is acknowledged or counted, but for those in the buffer after
\* the ones that were left over.
Accounted(c) == c.acked + c.in_bytes + Len(c.in) = c.fed + c.last_left /\ c.last_left <= Len(c.in)

\* What is in the buffer was left over, or nothing was ever counted.
Booked(c) == c.last_left = Len(c.in) \/ (c.last_left = 0 /\ c.acked = 0 /\ c.in_bytes = 0)

\* A context that nothing was asked of yet.
Calm(c) ==
  /\ OutType(c) /\ InType(c) /\ Silent(c)
  /\ c.last_left = 0 /\ c.acked = 0 /\ c.in_bytes = 0 /\ c.fed = Len(c.in)

CtxOK(c) ==
  /\ OutType(c) /\ InType(c) /\ Accounted(c) /\ Booked(c)
  /\ c.st \in {"handshake", "waiting", "message"}
  /\ c.st # "message" => Calm(c)
  /\ c.st # "handshake" => c.hs # "init"
  /\ c.st = "handshake" /\ c.hs \in Waits => c.iov = <<>>
  /\ c.st = "message" => Busy(c)

RtmpInv == DOMAIN cx = Peers /\ \A p \in Peers : CtxOK(cx[p])

\* A context between two messages.
Open(c) == OutType(c) /\ InType(c) /\ c.st = "message" /\ c.hs # "init" /\ Busy(c)

\* What has come and what was counted of it.
Kept(c, n) ==
  /\ n.in = c.in /\ n.in_bytes = c.in_bytes /\ n.last_left = c.last_left
  /\ n.fed = c.fed /\ n.acked = c.acked

\* Two sequences, one after the other.
LEMMA ConcatIsSeq ==
  ASSUME NEW p, NEW q, IsSeq(p), IsSeq(q)
  PROVE  /\ IsSeq(p \o q) /\ Len(p \o q) = Len(p) + Len(q)
         /\ Len(p) \in Nat /\ Len(q) \in Nat
<1>1. PICK S : p \in Seq(S)
  BY DEF IsSeq
<1>2. PICK T : q \in Seq(T)
  BY DEF IsSeq
<1>3. p \in Seq(S \cup T) /\ q \in Seq(S \cup T)
  BY <1>1, <1>2
<1>4. p \o q \in Seq(S \cup T) /\ Len(p \o q) = Len(p) + Len(q)
  BY <1>3
<1> QED BY <1>3, <1>4 DEF IsSeq

\* One more at the end.
LEMMA AppendIsSeq ==
  ASSUME NEW q, IsSeq(q), NEW x
  PROVE  /\ IsSeq(Append(q, x)) /\ Len(Append(q, x)) = Len(q) + 1 /\ Len(q) \in Nat
         /\ \A i \in 1 .. Len(q) : Append(q, x)[i] = q[i]
         /\ Append(q, x)[Len(q) + 1] = x
<1>1. PICK S : q \in Seq(S)
  BY DEF IsSeq
<1>2. q \in Seq(S \cup {x})
  BY <1>1
<1> QED BY <1>2 DEF IsSeq

\* A part of a sequence.
LEMMA SubIsSeq ==
  ASSUME NEW q, IsSeq(q), NEW a \in Nat \ {0}
  PROVE  /\ IsSeq(SubSeq(q, a, Len(q))) /\ Len(q) \in Nat
         /\ Len(SubSeq(q, a, Len(q))) = IF a <= Len(q) THEN Len(q) - a + 1 ELSE 0
         /\ \A i \in 1 .. Len(SubSeq(q, a, Len(q))) :
              SubSeq(q, a, Len(q))[i] = q[a + i - 1] /\ a + i - 1 \in 1 .. Len(q)
<1>1. PICK S : q \in Seq(S)
  BY DEF IsSeq
<1>2. Len(q) \in Nat /\ \A i \in 1 .. Len(q) : q[i] \in S
  BY <1>1
<1>3. SubSeq(q, a, Len(q)) \in Seq(S)
  BY <1>1, <1>2
<1> QED BY <1>1, <1>2, <1>3 DEF IsSeq

\* A function on 1 .. n is a sequence of length n.
LEMMA FunctionIsSeq ==
  ASSUME NEW n \in Nat, NEW f, f = [i \in 1 .. n |-> f[i]]
  PROVE  IsSeq(f) /\ Len(f) = n
<1> DEFINE S == {f[i] : i \in 1 .. n}
<1>1. f \in [1 .. n -> S]
  OBVIOUS
<1> HIDE DEF S
<1>2. f \in Seq(S)
  BY <1>1, SeqDef
<1>3. Len(f) = n
  BY <1>1, <1>2, LenProperties
<1> QED BY <1>2, <1>3 DEF IsSeq

\* A sequence without elements.
LEMMA Nonempty == \A q : IsSeq(q) => (Len(q) \in Nat /\ (q # <<>> <=> Len(q) > 0))
<1> SUFFICES ASSUME NEW q, IsSeq(q) PROVE Len(q) \in Nat /\ (q # <<>> <=> Len(q) > 0)
  OBVIOUS
<1>1. PICK S : q \in Seq(S)
  BY DEF IsSeq
<1>2. Len(q) \in Nat
  BY <1>1
<1>3. q = <<>> => Len(q) = 0
  OBVIOUS
<1>4. Len(q) = 0 => q = <<>>
  BY <1>1, EmptySeq
<1> QED BY <1>2, <1>3, <1>4


\* What comes in is left alone.
SameIn(c, n) ==
  /\ DOMAIN n = DOMAIN c
  /\ n.in = c.in /\ n.packets = c.packets /\ n.prev_in = c.prev_in
  /\ n.in_deltas = c.in_deltas /\ n.in_ext = c.in_ext
  /\ n.in_chunk_size = c.in_chunk_size /\ n.ack_size = c.ack_size
  /\ n.in_bytes = c.in_bytes /\ n.last_left = c.last_left
  /\ n.fed = c.fed /\ n.acked = c.acked

\* What goes out is left alone.
SameOut(c, n) ==
  /\ DOMAIN n = DOMAIN c
  /\ n.st = c.st /\ n.hs = c.hs /\ n.called = c.called /\ n.sending = c.sending
  /\ n.out_queue = c.out_queue /\ n.prev_out = c.prev_out
  /\ n.bufs = c.bufs /\ n.iov = c.iov /\ n.wire = c.wire

\* So its type stays.
LEMMA InSame ==
  ASSUME NEW c, NEW n, SameIn(c, n)
  PROVE  (InType(c) => InType(n)) /\ Kept(c, n)
BY DEF SameIn, InType, Kept

\* So its type stays.
LEMMA OutSame ==
  ASSUME NEW c, NEW n, SameOut(c, n), OutType(c)
  PROVE  OutType(n) /\ (Busy(c) => Busy(n)) /\ (Silent(c) => Silent(n))
BY DEF SameOut, OutType, Busy, Silent

\* No cells.
LEMMA EmptyCells == CellsOK(<<>>) /\ IsSeq(<<>>) /\ Len(<<>>) = 0
<1>1. <<>> \in Seq({}) /\ Len(<<>>) = 0
  OBVIOUS
<1> QED BY <1>1 DEF CellsOK, IsSeq

\* Cells, one sequence after the other.
LEMMA ConcatCells ==
  ASSUME NEW p, NEW q, CellsOK(p), CellsOK(q)
  PROVE  /\ CellsOK(p \o q) /\ Len(p \o q) = Len(p) + Len(q)
         /\ Len(p) \in Nat /\ Len(q) \in Nat
<1>1. PICK S : p \in Seq(S)
  BY DEF IsSeq, CellsOK
<1>2. PICK T : q \in Seq(T)
  BY DEF IsSeq, CellsOK
<1>3. p \in Seq(S \cup T) /\ q \in Seq(S \cup T)
  BY <1>1, <1>2
<1>4. /\ IsSeq(p \o q) /\ Len(p \o q) = Len(p) + Len(q)
      /\ Len(p) \in Nat /\ Len(q) \in Nat
  BY ConcatIsSeq DEF CellsOK
<1>5. \A i \in 1 .. Len(p) + Len(q) : (p \o q)[i] = IF i <= Len(p) THEN p[i] ELSE q[i - Len(p)]
  BY <1>3
<1> DEFINE r == p \o q
<1>6. /\ \A i \in 1 .. Len(p) + Len(q) : r[i] = IF i <= Len(p) THEN p[i] ELSE q[i - Len(p)]
      /\ Len(r) = Len(p) + Len(q)
  BY <1>4, <1>5
<1> HIDE DEF r
<1>7. \A i \in 1 .. Len(r) : CellOK(r[i])
  <2> TAKE i \in 1 .. Len(r)
  <2>1. CASE i <= Len(p)
    <3>1. i \in 1 .. Len(p) /\ r[i] = p[i]
      BY <1>4, <1>6, <2>1
    <3> QED BY <3>1 DEF CellsOK
  <2>2. CASE ~ (i <= Len(p))
    <3>1. i - Len(p) \in 1 .. Len(q) /\ r[i] = q[i - Len(p)]
      BY <1>4, <1>6, <2>2
    <3> QED BY <3>1 DEF CellsOK
  <2> QED BY <2>1, <2>2
<1> QED BY <1>4, <1>7 DEF CellsOK, r

\* One more cell at the end.
LEMMA AppendCell ==
  ASSUME NEW q, CellsOK(q), NEW x, CellOK(x)
  PROVE  CellsOK(Append(q, x)) /\ Len(Append(q, x)) = Len(q) + 1 /\ Len(q) \in Nat
<1> DEFINE a == Append(q, x)
<1>1. /\ IsSeq(a) /\ Len(a) = Len(q) + 1 /\ Len(q) \in Nat
      /\ \A i \in 1 .. Len(q) : a[i] = q[i]
      /\ a[Len(q) + 1] = x
  BY AppendIsSeq DEF CellsOK
<1> HIDE DEF a
<1>2. ASSUME NEW i \in 1 .. Len(a) PROVE CellOK(a[i])
  <2>1. i \in 1 .. Len(q) \/ i = Len(q) + 1
    BY <1>1
  <2> QED BY <1>1, <2>1 DEF CellsOK
<1>3. CellsOK(a)
  BY <1>1, <1>2 DEF CellsOK
<1> QED BY <1>1, <1>3 DEF a

\* Some of the cells.
LEMMA SubCells ==
  ASSUME NEW q, CellsOK(q), NEW a \in Nat \ {0}, NEW b \in Nat, b <= Len(q)
  PROVE  /\ CellsOK(SubSeq(q, a, b)) /\ Len(q) \in Nat
         /\ Len(SubSeq(q, a, b)) = IF a <= b THEN b - a + 1 ELSE 0
<1>1. PICK S : q \in Seq(S)
  BY DEF CellsOK, IsSeq
<1>2. Len(q) \in Nat /\ \A i \in 1 .. Len(q) : q[i] \in S
  BY <1>1
<1> DEFINE s == SubSeq(q, a, b)
<1>3. /\ s \in Seq(S) /\ Len(s) = (IF a <= b THEN b - a + 1 ELSE 0)
      /\ \A i \in 1 .. b - a + 1 : s[i] = q[a + i - 1]
  BY <1>1, <1>2
<1> HIDE DEF s
<1>4. ASSUME NEW i \in 1 .. Len(s) PROVE CellOK(s[i])
  <2>1. i \in 1 .. b - a + 1 /\ a + i - 1 \in 1 .. Len(q)
    BY <1>2, <1>3
  <2> QED BY <1>3, <2>1 DEF CellsOK
<1>5. CellsOK(s)
  BY <1>3, <1>4 DEF CellsOK, IsSeq
<1> QED BY <1>2, <1>3, <1>5 DEF s

--------------------------------------------------------------------------------
(* Induction.                                                              *)

\* Induction on naturals, by a set.
LEMMA SetInduction ==
  ASSUME NEW S, 0 \in S, \A k \in Nat : k \in S => k + 1 \in S
  PROVE  Nat \subseteq S
<1> SUFFICES ASSUME NEW n \in Nat, n \notin S PROVE FALSE
  OBVIOUS
<1> DEFINE R == OpToRel(<, Nat)
           T == Nat \ S
<1>1. \A x, y \in Nat : y < x => <<y, x>> \in R
  BY DEF OpToRel
<1>2. IsWellFoundedOn(R, Nat)
  BY NatLessThanWellFounded
<1> HIDE DEF R
<1>3. PICK z \in T : \A y \in T : ~ (<<y, z>> \in R)
  BY <1>2, WFMin
<1>4. z # 0 /\ z - 1 \in Nat
  BY <1>3
<1>5. z \in Nat /\ z \notin S /\ z - 1 < z
  BY <1>3, <1>4
<1>6. <<z - 1, z>> \in R
  BY <1>1, <1>4, <1>5
<1>7. z - 1 \in S
  BY <1>3, <1>4, <1>6
<1>8. (z - 1) + 1 \in S
  BY <1>4, <1>7
<1> QED BY <1>4, <1>5, <1>8



--------------------------------------------------------------------------------
(* Chunks out.                                                             *)

\* FlattenSeq's concatenation of the first i sequences.
Flattens(f, q, n) == f = [i \in 1 .. n |-> IF i = 1 THEN q[i] ELSE f[i - 1] \o q[i]]

\* There is such a concatenation.
LEMMA FlattenExists ==
  ASSUME NEW q, NEW n \in Nat
  PROVE  \E f : Flattens(f, q, n)
<1> DEFINE T == {k \in Nat : \E f : Flattens(f, q, k)}
<1>1. 0 \in T
  <2> DEFINE e == [i \in 1 .. 0 |-> q[i]]
  <2>1. e = [i \in 1 .. 0 |-> IF i = 1 THEN q[i] ELSE e[i - 1] \o q[i]]
    OBVIOUS
  <2> QED BY <2>1 DEF Flattens
<1>2. ASSUME NEW k \in Nat, k \in T PROVE k + 1 \in T
  <2>1. PICK f : Flattens(f, q, k)
    BY <1>2
  <2> DEFINE v == IF k + 1 = 1 THEN q[k + 1] ELSE f[k] \o q[k + 1]
             e == [i \in 1 .. k + 1 |-> IF i = k + 1 THEN v ELSE f[i]]
             W(i) == IF i = 1 THEN q[i] ELSE e[i - 1] \o q[i]
  <2>2. ASSUME NEW i \in 1 .. k + 1 PROVE e[i] = W(i)
    <3>1. CASE i = k + 1
      <4>1. i # 1 => k \in 1 .. k + 1 /\ k # k + 1 /\ i - 1 = k
        BY <3>1
      <4>2. i # 1 => e[i - 1] = f[k]
        BY <4>1
      <4>3. e[i] = v
        BY <3>1
      <4> HIDE DEF e
      <4> QED BY <3>1, <4>2, <4>3
    <3>2. CASE i # k + 1
      <4>1. i \in 1 .. k /\ (i # 1 => i - 1 \in 1 .. k + 1 /\ i - 1 # k + 1)
        BY <3>2
      <4>2. e[i] = f[i] /\ (i # 1 => e[i - 1] = f[i - 1])
        BY <3>2, <4>1
      <4>3. f[i] = IF i = 1 THEN q[i] ELSE f[i - 1] \o q[i]
        BY <2>1, <4>1 DEF Flattens
      <4> HIDE DEF e
      <4> QED BY <4>2, <4>3
    <3> QED BY <3>1, <3>2
  <2>3. e = [i \in 1 .. k + 1 |-> W(i)]
    <3> HIDE DEF W
    <3> QED BY <2>2
  <2>4. Flattens(e, q, k + 1)
    <3> HIDE DEF e
    <3> QED BY <2>3 DEF Flattens, W
  <2> HIDE DEF e
  <2> QED BY <2>4
<1> HIDE DEF T
<1>3. n \in T
  BY <1>1, <1>2, SetInduction
<1> QED BY <1>3 DEF T

\* Sequences of which the first has an element, put together, are a sequence that has one.
LEMMA FlattenFilled ==
  ASSUME NEW n \in Nat \ {0}, NEW q, Len(q) = n, \A i \in 1 .. n : CellsOK(q[i]), q[1] # <<>>
  PROVE  CellsOK(FlattenSeq(q)) /\ FlattenSeq(q) # <<>>
<1> DEFINE g == CHOOSE f : Flattens(f, q, n)
<1>1. FlattenSeq(q) = g[n]
  BY DEF FlattenSeq, Flattens
<1>2. Flattens(g, q, n)
  BY FlattenExists
<1> HIDE DEF g
<1> DEFINE T == {k \in Nat : k \in 1 .. n => CellsOK(g[k]) /\ Len(g[k]) > 0}
<1>3. 0 \in T
  OBVIOUS
<1>4. ASSUME NEW k \in Nat, k \in T PROVE k + 1 \in T
  <2> SUFFICES ASSUME k + 1 \in 1 .. n PROVE CellsOK(g[k + 1]) /\ Len(g[k + 1]) > 0
    BY DEF T
  <2>1. g[k + 1] = IF k + 1 = 1 THEN q[k + 1] ELSE g[(k + 1) - 1] \o q[k + 1]
    BY <1>2 DEF Flattens
  <2>2. CASE k = 0
    BY <2>1, <2>2, Nonempty DEF CellsOK
  <2>3. CASE k # 0
    <3>1. k \in 1 .. n /\ (k + 1) - 1 = k /\ k + 1 # 1
      BY <2>3
    <3>2. CellsOK(g[k]) /\ Len(g[k]) > 0 /\ CellsOK(q[k + 1])
      BY <1>4, <3>1
    <3>3. g[k + 1] = g[k] \o q[k + 1]
      BY <2>1, <3>1
    <3> DEFINE a == g[k]
               b == q[k + 1]
    <3> HIDE DEF a, b
    <3>4. CellsOK(a \o b) /\ Len(a \o b) = Len(a) + Len(b) /\ Len(a) \in Nat /\ Len(b) \in Nat
      BY <3>2, ConcatCells DEF a, b
    <3>5. Len(a) > 0 /\ g[k + 1] = a \o b
      BY <3>2, <3>3 DEF a, b
    <3> QED BY <3>4, <3>5
  <2> QED BY <2>2, <2>3
<1> HIDE DEF T
<1>5. n \in T
  BY <1>3, <1>4, SetInduction
<1>6. CellsOK(g[n]) /\ Len(g[n]) > 0
  BY <1>5 DEF T
<1> QED BY <1>1, <1>6, Nonempty DEF CellsOK

\* What is at least N has N in it at least once.
LEMMA DivPositive ==
  ASSUME NEW N \in Nat \ {0}, NEW a \in Nat, a >= N
  PROVE  a \div N \in Nat \ {0}
<1> DEFINE k == a \div N
<1>1. k \in Nat /\ a % N < N /\ a % N \in Nat /\ a = N * k + (a % N)
  OBVIOUS
<1> HIDE DEF k
<1>2. k # 0
  <2> SUFFICES ASSUME k = 0 PROVE FALSE
    OBVIOUS
  <2>1. N * k = 0
    OBVIOUS
  <2> QED BY <1>1, <2>1
<1> QED BY <1>1, <1>2 DEF k

\* The lesser of two numbers is a number.
LEMMA MinIsInt ==
  ASSUME NEW a \in Int, NEW b \in Int
  PROVE  Min({a, b}) \in Int
<1>1. \E x \in {a, b} : \A y \in {a, b} : x <= y
  OBVIOUS
<1> QED BY <1>1 DEF Min

\* Halves of a timestamp, the other way round.
LEMMA SwappedIsNat ==
  ASSUME NEW ts \in Nat
  PROVE  Swapped(ts) \in Nat
<1> DEFINE a == ts % TsByte
           b == ts \div TsByte
<1>1. a \in Nat /\ b \in Nat /\ TsByte \in Nat
  BY RtmpAssumption
<1> HIDE DEF a, b
<1>2. a * TsByte \in Nat
  BY <1>1
<1>3. a * TsByte + b \in Nat
  BY <1>1, <1>2
<1> QED BY <1>3 DEF Swapped, a, b

\* A message that is not empty makes a chunk.
LEMMA ChunksFilled ==
  ASSUME NEW m, MsgOK(m), NEW fmt \in 0 .. 3, NEW ts \in Nat
  PROVE  CellsOK(Chunks(m, fmt, ts)) /\ Chunks(m, fmt, ts) # <<>>
<1> DEFINE short == IF ts >= ExtTs THEN ExtTs ELSE ts
           fields == <<<<"ts", short>>, <<"len", m.len, m.type>>, <<"sid", m.sid>>>>
           ext == IF short = ExtTs THEN <<<<"ext", Swapped(ts)>>>> ELSE <<>>
           head(f) == <<Basic(f, m.csid)>> \o SubSeq(fields, 1, 3 - f) \o ext
           count == (m.len + OutChunkSize - 1) \div OutChunkSize
           left(k) == Min({OutChunkSize, m.len - (k - 1) * OutChunkSize})
           cell(k, i) == <<"body", (k - 1) * OutChunkSize + i, m>>
           body(k) == [i \in 1 .. left(k) |-> cell(k, i)]
           chunk(k) == head(IF k = 1 THEN fmt ELSE 3) \o body(k)
           all == [k \in 1 .. count |-> chunk(k)]
<1>1. Chunks(m, fmt, ts) = FlattenSeq(all)
  BY DEF Chunks
<1>2. CellsOK(fields) /\ Len(fields) = 3
  <2>1. fields \in Seq({fields[1], fields[2], fields[3]}) /\ Len(fields) = 3
    OBVIOUS
  <2>2. short \in Nat
    BY RtmpAssumption
  <2> HIDE DEF short
  <2>3. CellOK(<<"ts", short>>) /\ CellOK(<<"len", m.len, m.type>>) /\ CellOK(<<"sid", m.sid>>)
    BY <2>2 DEF CellOK, MsgOK
  <2>4. \A i \in 1 .. 3 : CellOK(fields[i])
    BY <2>3
  <2> HIDE DEF fields
  <2> QED BY <2>1, <2>4 DEF CellsOK, IsSeq
<1>3. CellsOK(ext)
  <2> DEFINE x == <<"ext", Swapped(ts)>>
             e == <<x>>
  <2>1. CellOK(x)
    BY SwappedIsNat DEF CellOK
  <2> HIDE DEF x
  <2>2. e \in Seq({x}) /\ Len(e) = 1 /\ e[1] = x
    OBVIOUS
  <2> HIDE DEF e
  <2>3. CellsOK(e)
    BY <2>1, <2>2 DEF CellsOK, IsSeq
  <2> QED BY <2>3, EmptyCells DEF e, x
<1>4. ASSUME NEW f \in 0 .. 3 PROVE CellsOK(head(f)) /\ Len(head(f)) > 0
  <2> DEFINE x == <<Basic(f, m.csid)>>
             y == SubSeq(fields, 1, 3 - f)
  <2>1. CellsOK(x) /\ Len(x) = 1
    <3> DEFINE z == Basic(f, m.csid)
    <3>1. CellOK(z)
      BY DEF CellOK, Basic, MsgOK
    <3> HIDE DEF z
    <3> DEFINE e == <<z>>
    <3>2. e \in Seq({z}) /\ Len(e) = 1 /\ e[1] = z
      OBVIOUS
    <3> HIDE DEF e
    <3>3. CellsOK(e) /\ Len(e) = 1
      BY <3>1, <3>2 DEF CellsOK, IsSeq
    <3>4. e = x
      BY DEF e, z
    <3> HIDE DEF x
    <3> QED BY <3>3, <3>4
  <2>2. CellsOK(y)
    <3> HIDE DEF fields
    <3>1. 3 - f \in Nat /\ 3 - f <= Len(fields) /\ 1 \in Nat \ {0}
      BY <1>2
    <3> QED BY <1>2, <3>1, SubCells
  <2> HIDE DEF x, y, ext, fields
  <2>3. CellsOK(x \o y) /\ Len(x \o y) = Len(x) + Len(y) /\ Len(y) \in Nat
    BY <2>1, <2>2, ConcatCells
  <2>4. /\ CellsOK((x \o y) \o ext) /\ Len((x \o y) \o ext) = Len(x \o y) + Len(ext)
        /\ Len(ext) \in Nat
    BY <1>3, <2>3, ConcatCells
  <2>5. head(f) = (x \o y) \o ext
    BY DEF x, y
  <2>6. Len((x \o y) \o ext) > 0
    BY <2>1, <2>3, <2>4
  <2> HIDE DEF head
  <2> QED BY <2>4, <2>5, <2>6
<1>5. m.len \in Nat \ {0} /\ OutChunkSize \in Nat \ {0}
  BY RtmpAssumption DEF MsgOK
<1>6. count \in Nat \ {0}
  BY <1>5, DivPositive
<1> HIDE DEF head, fields, ext, short, count
<1>7. ASSUME NEW k \in 1 .. count PROVE CellsOK(body(k))
  <2>1. (k - 1) * OutChunkSize \in Nat
    <3>1. k - 1 \in Nat
      BY <1>6
    <3> QED BY <1>5, <3>1
  <2>2. left(k) \in Int
    <3>1. m.len - (k - 1) * OutChunkSize \in Int
      BY <1>5, <2>1
    <3> QED BY <1>5, <3>1, MinIsInt
  <2>3. ASSUME NEW i \in 1 .. left(k) PROVE CellOK(cell(k, i))
    <3>1. i \in Nat
      BY <2>2
    <3>2. (k - 1) * OutChunkSize + i \in Nat
      BY <2>1, <3>1
    <3> QED BY <3>2 DEF CellOK
  <2> HIDE DEF left, cell
  <2> DEFINE b == body(k)
  <2>4. b = [i \in 1 .. left(k) |-> b[i]] /\ \A i \in 1 .. left(k) : b[i] = cell(k, i)
    OBVIOUS
  <2> HIDE DEF b
  <2>5. IsSeq(b) /\ \A i \in 1 .. Len(b) : i \in 1 .. left(k)
    <3>1. CASE left(k) \in Nat
      BY <2>4, <3>1, FunctionIsSeq
    <3>2. CASE left(k) \notin Nat
      <4>1. 1 .. left(k) = 1 .. 0
        BY <2>2, <3>2
      <4>2. b = [i \in 1 .. 0 |-> b[i]]
        BY <2>4, <4>1
      <4>3. IsSeq(b) /\ Len(b) = 0
        BY <4>2, FunctionIsSeq
      <4> QED BY <4>3
    <3> QED BY <3>1, <3>2
  <2>6. CellsOK(b)
    BY <2>3, <2>4, <2>5 DEF CellsOK
  <2> QED BY <2>6 DEF b
<1> HIDE DEF body, left, cell
<1>8. ASSUME NEW k \in 1 .. count PROVE CellsOK(chunk(k)) /\ chunk(k) # <<>>
  <2> DEFINE h == head(IF k = 1 THEN fmt ELSE 3)
             b == body(k)
  <2>1. CellsOK(h) /\ Len(h) > 0
    BY <1>4
  <2>2. CellsOK(b)
    BY <1>7
  <2> HIDE DEF h, b
  <2>3. CellsOK(h \o b) /\ Len(h \o b) = Len(h) + Len(b) /\ Len(h) \in Nat /\ Len(b) \in Nat
    BY <2>1, <2>2, ConcatCells
  <2>4. Len(h \o b) > 0
    BY <2>1, <2>3
  <2>5. chunk(k) = h \o b
    BY DEF h, b
  <2> HIDE DEF chunk
  <2> QED BY <2>3, <2>4, <2>5, Nonempty DEF CellsOK
<1> HIDE DEF chunk
<1>9. Len(all) = count /\ \A k \in 1 .. count : all[k] = chunk(k)
  <2>1. all = [k \in 1 .. count |-> all[k]]
    OBVIOUS
  <2>2. \A k \in 1 .. count : all[k] = chunk(k)
    OBVIOUS
  <2> HIDE DEF all
  <2> QED BY <1>6, <2>1, <2>2, FunctionIsSeq
<1> HIDE DEF all
<1>10. 1 \in 1 .. count
  BY <1>6
<1> QED BY <1>1, <1>6, <1>8, <1>9, <1>10, FlattenFilled

\* Building adds to bufs and leaves the other fields of sending alone.
Builds(c, n) ==
  /\ OutType(n) /\ SameIn(c, n)
  /\ n.st = c.st /\ n.hs = c.hs /\ n.out_queue = c.out_queue
  /\ n.sending = c.sending /\ n.iov = c.iov /\ n.wire = c.wire /\ n.called = c.called
  /\ c.bufs # <<>> => n.bufs # <<>>

\* The end of BuildChunk.
LEMMA EmitBuilds ==
  ASSUME NEW c, OutType(c), NEW m, MsgOK(m), NEW fmt \in 0 .. 3, NEW ts \in Nat,
         fmt # 0 => c.prev_out[m.csid].ts \in Nat
  PROVE  Builds(c, Emit(c, m, fmt, ts)) /\ Emit(c, m, fmt, ts).bufs # <<>>
<1> DEFINE n == Emit(c, m, fmt, ts)
           k == Chunks(m, fmt, ts)
           b == c.bufs
           now == IF fmt = 0 THEN ts ELSE c.prev_out[m.csid].ts + ts
           r == [len |-> m.len, type |-> m.type, sid |-> m.sid, ts |-> now]
<1>1. CellsOK(k) /\ Len(k) \in Nat /\ Len(k) > 0 /\ CellsOK(b) /\ Len(b) \in Nat
  BY ChunksFilled, Nonempty DEF OutType, CellsOK
<1> HIDE DEF k
<1>2. now \in Nat /\ r.ts = now
  OBVIOUS
<1> HIDE DEF now, r
<1>3. /\ DOMAIN n = DOMAIN c /\ n.st = c.st /\ n.hs = c.hs /\ n.out_queue = c.out_queue
      /\ n.sending = c.sending /\ n.iov = c.iov /\ n.wire = c.wire /\ n.called = c.called
      /\ n.bufs = b \o k /\ n.prev_out = [c.prev_out EXCEPT ![m.csid] = r]
  BY DEF Emit, OutType, CtxFields, OutFields, k, r, now
<1>4. SameIn(c, n)
  BY DEF Emit, OutType, CtxFields, InFields, SameIn
<1> HIDE DEF n, b
<1>5. CellsOK(b \o k) /\ Len(b \o k) = Len(b) + Len(k)
  BY <1>1, ConcatCells
<1>6. CellsOK(n.bufs) /\ n.bufs # <<>>
  <2>1. Len(b \o k) > 0
    BY <1>1, <1>5
  <2> QED BY <1>3, <1>5, <2>1, Nonempty DEF CellsOK
<1>7. DOMAIN n.prev_out = Csids /\ \A s \in Csids : n.prev_out[s] = None \/ n.prev_out[s].ts \in Nat
  BY <1>2, <1>3 DEF OutType, MsgOK
<1>8. OutType(n)
  BY <1>3, <1>6, <1>7 DEF OutType
<1> QED BY <1>3, <1>4, <1>6, <1>8 DEF Builds, n

\* One message of the queue.
LEMMA BuildChunkBuilds ==
  ASSUME NEW c, OutType(c), NEW m, MsgOK(m)
  PROVE  Builds(c, BuildChunk(c, m)) /\ BuildChunk(c, m).bufs # <<>>
<1> DEFINE prev == c.prev_out[m.csid]
           fmt == DeltaFmt(prev, m, 0, c.out_deltas[m.csid])
           ts == IF fmt = 0 THEN 0 ELSE 0 - prev.ts
<1>1. prev = None \/ prev.ts \in Nat
  BY DEF OutType, MsgOK
<1>2. fmt \in 0 .. 3
  BY DEF DeltaFmt
<1>3. fmt # 0 => prev # None /\ ~ (0 < prev.ts)
  BY DEF DeltaFmt
<1>4. BuildChunk(c, m) = Emit(c, m, fmt, ts)
  BY DEF BuildChunk
<1> HIDE DEF fmt
<1>5. ts \in Nat /\ (fmt # 0 => prev.ts \in Nat)
  BY <1>1, <1>2, <1>3
<1> HIDE DEF ts
<1> QED BY <1>2, <1>4, <1>5, EmitBuilds

\* One frame of a player.
LEMMA BuildFrameBuilds ==
  ASSUME NEW c, OutType(c), NEW m, MsgOK(m), NEW ts \in Nat
  PROVE  Builds(c, BuildFrame(c, m, ts)) /\ BuildFrame(c, m, ts).bufs # <<>>
<1> DEFINE d == [c EXCEPT !.sent = Append(@, [m |-> m, ts |-> ts])]
<1>1. SameOut(c, d) /\ SameIn(c, d)
  BY DEF OutType, CtxFields, OutFields, InFields, SameOut, SameIn
<1> HIDE DEF d
<1>2. OutType(d)
  BY <1>1, OutSame
<1>3. Builds(d, Emit(d, m, 0, ts)) /\ Emit(d, m, 0, ts).bufs # <<>>
  BY <1>2, EmitBuilds
<1> QED BY <1>1, <1>3 DEF Builds, BuildFrame, SameOut, SameIn, d

\* BuildChunks' contexts, after each of the first n messages.
Builts(f, c, n) == f = [k \in 0 .. n |-> IF k = 0 THEN c ELSE BuildChunk(f[k - 1], c.out_queue[k])]

\* There are such contexts.
LEMMA BuiltsExist ==
  ASSUME NEW c, NEW n \in Nat
  PROVE  \E f : Builts(f, c, n)
<1> DEFINE T == {k \in Nat : \E f : Builts(f, c, k)}
<1>1. 0 \in T
  <2> DEFINE e == [k \in 0 .. 0 |-> c]
  <2>1. e = [k \in 0 .. 0 |-> IF k = 0 THEN c ELSE BuildChunk(e[k - 1], c.out_queue[k])]
    OBVIOUS
  <2> HIDE DEF e
  <2>2. Builts(e, c, 0)
    BY <2>1 DEF Builts
  <2> QED BY <2>2
<1>2. ASSUME NEW k \in Nat, k \in T PROVE k + 1 \in T
  <2>1. PICK f : Builts(f, c, k)
    BY <1>2
  <2> DEFINE v == BuildChunk(f[k], c.out_queue[k + 1])
             e == [i \in 0 .. k + 1 |-> IF i = k + 1 THEN v ELSE f[i]]
             W(i) == IF i = 0 THEN c ELSE BuildChunk(e[i - 1], c.out_queue[i])
  <2>2. ASSUME NEW i \in 0 .. k + 1 PROVE e[i] = W(i)
    <3>1. CASE i = k + 1
      <4>1. i # 0 /\ k \in 0 .. k + 1 /\ k # k + 1 /\ i - 1 = k
        BY <3>1
      <4>2. e[i - 1] = f[k] /\ e[i] = v
        BY <3>1, <4>1
      <4> HIDE DEF e
      <4> QED BY <3>1, <4>1, <4>2
    <3>2. CASE i # k + 1
      <4>1. i \in 0 .. k /\ (i # 0 => i - 1 \in 0 .. k + 1 /\ i - 1 # k + 1)
        BY <3>2
      <4>2. e[i] = f[i] /\ (i # 0 => e[i - 1] = f[i - 1])
        BY <3>2, <4>1
      <4>3. f[i] = IF i = 0 THEN c ELSE BuildChunk(f[i - 1], c.out_queue[i])
        BY <2>1, <4>1 DEF Builts
      <4> HIDE DEF e
      <4> QED BY <4>2, <4>3
    <3> QED BY <3>1, <3>2
  <2>3. e = [i \in 0 .. k + 1 |-> W(i)]
    <3> HIDE DEF W
    <3> QED BY <2>2
  <2>4. Builts(e, c, k + 1)
    <3> HIDE DEF e
    <3> QED BY <2>3 DEF Builts, W
  <2> HIDE DEF e
  <2> QED BY <2>4
<1> HIDE DEF T
<1>3. n \in T
  BY <1>1, <1>2, SetInduction
<1> QED BY <1>3 DEF T

\* The first n messages of the queue.
LEMMA BuildChunksBuilds ==
  ASSUME NEW c, OutType(c), NEW n \in 0 .. Len(c.out_queue)
  PROVE  /\ Builds(c, BuildChunks(c, n))
         /\ n > 0 => BuildChunks(c, n).bufs # <<>>
<1> DEFINE g == CHOOSE f : Builts(f, c, n)
<1>1. BuildChunks(c, n) = g[n]
  BY DEF BuildChunks, Builts
<1>2. n \in Nat /\ Builts(g, c, n)
  BY BuiltsExist
<1> HIDE DEF g
<1> DEFINE T == {k \in Nat : k \in 0 .. n => Builds(c, g[k]) /\ (k > 0 => g[k].bufs # <<>>)}
<1>3. 0 \in T
  <2>1. g[0] = c
    BY <1>2 DEF Builts
  <2> QED BY <2>1 DEF Builds, SameIn
<1>4. ASSUME NEW k \in Nat, k \in T PROVE k + 1 \in T
  <2> SUFFICES ASSUME k + 1 \in 0 .. n PROVE Builds(c, g[k + 1]) /\ g[k + 1].bufs # <<>>
    BY DEF T
  <2>1. k \in 0 .. n /\ (k + 1) - 1 = k /\ k + 1 # 0 /\ k + 1 \in 1 .. Len(c.out_queue)
    BY <1>2, Nonempty DEF OutType
  <2>2. g[k + 1] = BuildChunk(g[k], c.out_queue[k + 1])
    BY <1>2, <2>1 DEF Builts
  <2>3. Builds(c, g[k])
    BY <1>4, <2>1
  <2>4. OutType(g[k]) /\ MsgOK(c.out_queue[k + 1])
    BY <2>1, <2>3 DEF Builds, OutType
  <2>5. Builds(g[k], g[k + 1]) /\ g[k + 1].bufs # <<>>
    BY <2>2, <2>4, BuildChunkBuilds
  <2> QED BY <2>3, <2>5 DEF Builds, SameIn
<1> HIDE DEF T
<1>5. n \in T
  BY <1>2, <1>3, <1>4, SetInduction
<1> QED BY <1>1, <1>2, <1>5 DEF T

--------------------------------------------------------------------------------
(* Sending.                                                                *)

\* Send on a context with something to send.
LEMMA SendOpens ==
  ASSUME NEW c, OutType(c), InType(c), c.st = "message", c.hs # "init",
         c.sending = TRUE => c.iov # <<>>,
         c.sending = FALSE => c.iov = <<>> /\ (c.out_queue # <<>> \/ c.bufs # <<>>)
  PROVE  Open(Send(c)) /\ SameIn(c, Send(c))
<1>1. CASE c.sending = TRUE
  BY <1>1 DEF Send, Open, Busy, SameIn
<1>2. CASE c.sending = FALSE
  <2> DEFINE q == c.out_queue
             n == Min({SendBatch, Len(q)})
             d == [c EXCEPT !.sending = TRUE]
             b == BuildChunks(d, n)
             s == SubSeq(q, n + 1, Len(q))
             e == [b EXCEPT !.out_queue = SubSeq(@, n + 1, Len(@))]
             f == SendList(e)
  <2>1. Send(c) = f
    BY <1>2 DEF Send
  <2>2. /\ IsSeq(q) /\ Len(q) \in Nat /\ (q # <<>> => Len(q) > 0)
        /\ \A i \in 1 .. Len(q) : MsgOK(q[i])
    BY Nonempty DEF OutType
  <2>3. n \in 0 .. Len(q) /\ (q # <<>> => n > 0)
    <3>1. \E x \in {SendBatch, Len(q)} : \A y \in {SendBatch, Len(q)} : x <= y
      BY <2>2, RtmpAssumption
    <3>2. n \in {SendBatch, Len(q)} /\ n <= SendBatch /\ n <= Len(q)
      BY <3>1 DEF Min
    <3> HIDE DEF n
    <3> QED BY <2>2, <3>2, RtmpAssumption
  <2> HIDE DEF n
  <2>4. /\ OutType(d) /\ d.hs = c.hs /\ d.st = "message" /\ d.sending = TRUE /\ d.iov = c.iov /\ d.out_queue = q
        /\ d.bufs = c.bufs /\ SameIn(c, d)
    BY DEF OutType, CtxFields, OutFields, InFields, SameIn
  <2> HIDE DEF d, q
  <2>5. Builds(d, b) /\ (n > 0 => b.bufs # <<>>)
    BY <2>3, <2>4, BuildChunksBuilds
  <2>6. b.bufs # <<>>
    BY <1>2, <2>3, <2>4, <2>5 DEF Builds, q
  <2> HIDE DEF b
  <2>7. /\ OutType(b) /\ b.hs = c.hs /\ b.st = "message" /\ b.sending = TRUE /\ b.iov = <<>> /\ b.out_queue = q
        /\ SameIn(d, b)
    BY <1>2, <2>4, <2>5 DEF Builds
  <2> HIDE DEF s
  <2>8. /\ DOMAIN e = DOMAIN b /\ e.hs = b.hs /\ e.st = "message" /\ e.sending = TRUE /\ e.iov = <<>>
        /\ e.out_queue = s /\ e.bufs = b.bufs /\ e.wire = b.wire /\ e.prev_out = b.prev_out
        /\ SameIn(b, e)
    BY <2>7 DEF OutType, CtxFields, OutFields, InFields, SameIn, s
  <2> HIDE DEF e
  <2>9. /\ DOMAIN f = DOMAIN b /\ f.hs = b.hs /\ f.st = "message" /\ f.sending = TRUE /\ f.iov = <<>> \o b.bufs
        /\ f.out_queue = s /\ f.bufs = b.bufs /\ f.wire = b.wire /\ f.prev_out = b.prev_out
        /\ SameIn(e, f)
    BY <2>7, <2>8 DEF SendList, OutType, CtxFields, OutFields, InFields, SameIn
  <2> HIDE DEF f
  <2>10. CellsOK(f.iov) /\ f.iov # <<>>
    <3> DEFINE x == b.bufs
               z == <<>> \o x
    <3>1. CellsOK(x) /\ x # <<>>
      BY <2>6, <2>7 DEF OutType
    <3> HIDE DEF x
    <3>2. CellsOK(z) /\ Len(z) = Len(<<>>) + Len(x) /\ Len(x) \in Nat /\ Len(<<>>) = 0
      BY <3>1, ConcatCells, EmptyCells
    <3>3. Len(x) > 0
      BY <3>1, Nonempty DEF CellsOK
    <3>4. f.iov = z
      BY <2>9 DEF x
    <3> HIDE DEF z
    <3> QED BY <3>2, <3>3, <3>4, Nonempty DEF CellsOK
  <2>11. IsSeq(s) /\ \A i \in 1 .. Len(s) : MsgOK(s[i])
    <3>1. n + 1 \in Nat \ {0}
      BY <2>2, <2>3
    <3>2. /\ IsSeq(s)
          /\ \A i \in 1 .. Len(s) : s[i] = q[(n + 1) + i - 1] /\ (n + 1) + i - 1 \in 1 .. Len(q)
      BY <2>2, <3>1, SubIsSeq DEF s
    <3>3. \A i \in 1 .. Len(s) : MsgOK(s[i])
      BY <2>2, <3>2
    <3> QED BY <3>2, <3>3
  <2>12. OutType(f)
    BY <2>7, <2>9, <2>10, <2>11 DEF OutType
  <2>13. SameIn(c, f)
    BY <2>4, <2>7, <2>8, <2>9 DEF SameIn
  <2>14. InType(f)
    BY <2>13, InSame
  <2>15. Open(f)
    BY <2>7, <2>9, <2>10, <2>12, <2>14 DEF Open, Busy
  <2> QED BY <2>1, <2>13, <2>15
<1> QED BY <1>1, <1>2 DEF OutType

\* A message pushed onto the queue.
LEMMA PushOpens ==
  ASSUME NEW c, Open(c), NEW m, MsgOK(m)
  PROVE  Open(PushOutQueue(c, m)) /\ SameIn(c, PushOutQueue(c, m))
<1> DEFINE d == [c EXCEPT !.out_queue = Append(@, m), !.sent = Append(@, [m |-> m, ts |-> 0])]
           q == c.out_queue
           a == Append(q, m)
<1>1. /\ DOMAIN d = DOMAIN c /\ d.st = c.st /\ d.hs = c.hs /\ d.sending = c.sending /\ d.iov = c.iov
      /\ d.bufs = c.bufs /\ d.wire = c.wire /\ d.prev_out = c.prev_out /\ d.out_queue = a
      /\ SameIn(c, d)
  BY DEF Open, OutType, CtxFields, OutFields, InFields, SameIn
<1>2. IsSeq(q) /\ \A i \in 1 .. Len(q) : MsgOK(q[i])
  BY DEF Open, OutType
<1> HIDE DEF q
<1>3. /\ IsSeq(a) /\ Len(a) = Len(q) + 1 /\ Len(q) \in Nat
      /\ \A i \in 1 .. Len(q) : a[i] = q[i]
      /\ a[Len(q) + 1] = m
  BY <1>2, AppendIsSeq
<1> HIDE DEF a, d
<1>4. \A i \in 1 .. Len(a) : MsgOK(a[i])
  <2> TAKE i \in 1 .. Len(a)
  <2>1. i \in 1 .. Len(q) \/ i = Len(q) + 1
    BY <1>3
  <2> QED BY <1>2, <1>3, <2>1
<1>5. a # <<>>
  <2>1. Len(a) > 0
    BY <1>3
  <2> QED BY <1>3, <2>1, Nonempty
<1>6. OutType(d)
  BY <1>1, <1>3, <1>4 DEF Open, OutType
<1>7. InType(d)
  BY <1>1, InSame DEF Open
<1>8. Open(Send(d)) /\ SameIn(d, Send(d))
  BY <1>1, <1>5, <1>6, <1>7, SendOpens DEF Open, Busy
<1>9. SameIn(c, Send(d))
  BY <1>1, <1>8 DEF SameIn
<1> QED BY <1>8, <1>9 DEF PushOutQueue, d

\* When the connection has written everything, what waits is sent.
LEMMA CheckOpens ==
  ASSUME NEW c, OutType(c), InType(c), c.st = "message", c.hs # "init", c.iov = <<>>
  PROVE  Open(CheckAndSend(c)) /\ SameIn(c, CheckAndSend(c))
<1> DEFINE d == [c EXCEPT !.sending = FALSE, !.bufs = <<>>]
<1>1. /\ DOMAIN d = DOMAIN c /\ d.st = "message" /\ d.hs = c.hs /\ d.sending = FALSE /\ d.iov = <<>>
      /\ d.bufs = <<>> /\ d.out_queue = c.out_queue /\ d.wire = c.wire /\ d.prev_out = c.prev_out
      /\ SameIn(c, d)
  BY DEF OutType, CtxFields, OutFields, InFields, SameIn
<1> HIDE DEF d
<1>2. OutType(d) /\ InType(d)
  BY <1>1, InSame, EmptyCells DEF OutType
<1>3. CASE c.out_queue # <<>>
  <2>1. Open(Send(d)) /\ SameIn(d, Send(d))
    BY <1>1, <1>2, <1>3, SendOpens
  <2>2. CheckAndSend(c) = Send(d)
    BY <1>3 DEF CheckAndSend, d
  <2> QED BY <1>1, <2>1, <2>2 DEF SameIn
<1>4. CASE c.out_queue = <<>>
  <2>1. Open(d)
    BY <1>1, <1>2, <1>4 DEF Open, Busy
  <2>2. CheckAndSend(c) = d
    BY <1>4 DEF CheckAndSend, d
  <2> QED BY <1>1, <2>1, <2>2
<1> QED BY <1>3, <1>4

--------------------------------------------------------------------------------
(* Messages in.                                                            *)

\* What touches neither direction's fields keeps a context open.
LEMMA StaysOpen ==
  ASSUME NEW c, Open(c), NEW n, SameOut(c, n), SameIn(c, n)
  PROVE  Open(n)
<1>1. OutType(c) /\ InType(c) /\ Busy(c) /\ c.st = "message" /\ c.hs # "init"
  BY DEF Open
<1>2. OutType(n) /\ InType(n) /\ Busy(n)
  BY <1>1, InSame, OutSame
<1> QED BY <1>1, <1>2 DEF Open, SameOut

\* A handler of a whole message leaves the bytes that came alone.
Handles(c, n) == Open(n) /\ Kept(c, n)

\* The context's own messages have a body.
LEMMA OwnMsgOK ==
  /\ \A kind, type : \A val \in Nat : MsgOK(Control(kind, type, val))
  /\ \A kind : \A sid, val \in Nat :
       MsgOK(Amf(kind, 1, sid, val)) /\ MsgOK(Amf(kind, BigLen, sid, val))
BY RtmpAssumption DEF MsgOK, Control, Amf, Msg, CsCommand, CsAmf, Csids

\* The event that a user control message says.
LEMMA UserMsgOK ==
  ASSUME NEW val \in Nat
  PROVE  MsgOK(UserControl(val))
<1> DEFINE d == TsByte * TsByte
<1>1. d \in Nat \ {0}
  <2>1. TsByte \in Nat /\ TsByte >= 1
    BY RtmpAssumption
  <2>2. d \in Nat /\ d # 0
    BY <2>1
  <2> QED BY <2>2
<1> HIDE DEF d
<1>2. val \div d \in Nat
  BY <1>1
<1> QED BY <1>2, OwnMsgOK DEF UserControl, d

\* One message more is handled, too.
LEMMA PushHandles ==
  ASSUME NEW c, NEW d, Handles(c, d), NEW m, MsgOK(m)
  PROVE  Handles(c, PushOutQueue(d, m))
<1>1. Open(d) /\ Kept(c, d)
  BY DEF Handles
<1> DEFINE n == PushOutQueue(d, m)
<1>2. Open(n) /\ SameIn(d, n)
  BY <1>1, PushOpens
<1> HIDE DEF n
<1> QED BY <1>1, <1>2 DEF Handles, Kept, SameIn, n

\* A callback into the live service.
LEMMA CalledHandles ==
  ASSUME NEW c, NEW d, Handles(c, d), NEW what
  PROVE  Handles(c, Called(d, what))
<1> DEFINE n == Called(d, what)
<1>1. /\ OutType(d) /\ InType(d) /\ Busy(d) /\ d.st = "message" /\ d.hs # "init"
      /\ Kept(c, d)
  BY DEF Handles, Open
<1>2. /\ DOMAIN n = DOMAIN d /\ n.st = d.st /\ n.hs = d.hs /\ n.sending = d.sending /\ n.iov = d.iov
      /\ n.bufs = d.bufs /\ n.out_queue = d.out_queue /\ n.prev_out = d.prev_out
      /\ n.wire = d.wire /\ SameIn(d, n)
  BY <1>1 DEF Called, OutType, CtxFields, OutFields, InFields, SameIn
<1> HIDE DEF n
<1>3. OutType(n) /\ Busy(n)
  BY <1>1, <1>2 DEF OutType, Busy
<1>4. InType(n)
  BY <1>1, <1>2, InSame
<1> QED BY <1>1, <1>2, <1>3, <1>4 DEF Handles, Open, Kept, SameIn, n

\* connect is answered with four messages.
LEMMA ConnectHandles ==
  ASSUME NEW c, Open(c)
  PROVE  Handles(c, HandleConnect(c))
<1> DEFINE c1 == PushOutQueue(c, Control("ackWindow", "windowAckSize", c.ack_size))
           c2 == PushOutQueue(c1, Control("peerBandwidth", "setPeerBW", c.ack_size))
           c3 == PushOutQueue(c2, Control("setChunkSize", "chunkSize", OutChunkSize))
           c4 == PushOutQueue(c3, Amf("_result", BigLen, 0, 1))
<1>1. c.ack_size \in Nat /\ OutChunkSize \in Nat /\ Handles(c, c)
  BY RtmpAssumption DEF Handles, Kept, Open, InType
<1>2. Handles(c, c1)
  BY <1>1, OwnMsgOK, PushHandles
<1> HIDE DEF c1
<1>3. Handles(c, c2)
  BY <1>1, <1>2, OwnMsgOK, PushHandles
<1> HIDE DEF c2
<1>4. Handles(c, c3)
  BY <1>1, <1>3, OwnMsgOK, PushHandles
<1> HIDE DEF c3
<1>5. Handles(c, c4)
  BY <1>4, OwnMsgOK, PushHandles
<1>6. HandleConnect(c) = c4
  BY DEF HandleConnect, c1, c2, c3
<1> QED BY <1>5, <1>6

\* The other commands.
LEMMA CommandHandles ==
  ASSUME NEW c, Open(c), NEW m, MsgOK(m)
  PROVE  Handles(c, HandleAmfCommand(c, m))
<1>0. Handles(c, c) /\ m.val \in Nat
  BY DEF Handles, Kept, MsgOK
<1>1. ASSUME NEW d, Handles(c, d), NEW code \in Nat
      PROVE  Handles(c, SendStatus(d, code))
  BY <1>1, OwnMsgOK, PushHandles DEF SendStatus
<1>2. ASSUME NEW code PROVE Handles(c, HandleStatus(c, code))
  <2>1. Handles(c, Called(c, "OnPlay")) /\ Handles(c, Called(c, "OnPublish"))
    BY <1>0, CalledHandles
  <2> QED BY <1>0, <2>1 DEF HandleStatus, PlayStart, PublishStart
<1>3. Handles(c, HandleCreateStream(c, m.val))
  BY <1>0, OwnMsgOK, PushHandles DEF HandleCreateStream
<1>4. Handles(c, HandleResult(c, m.val))
  <2>1. /\ Handles(c, SendCreateStream(c)) /\ Handles(c, SendPlay(c))
        /\ Handles(c, SendPublish(c))
    BY <1>0, OwnMsgOK, PushHandles DEF SendCreateStream, SendPlay, SendPublish
  <2> QED BY <1>0, <2>1 DEF HandleResult
<1>5. Handles(c, HandlePlay(c))
  <2> DEFINE d == PushOutQueue(c, UserControl(1))
             e == SendStatus(d, PlayStart)
  <2>1. Handles(c, d)
    BY <1>0, UserMsgOK, PushHandles
  <2> HIDE DEF d
  <2>2. Handles(c, e)
    BY <1>1, <2>1 DEF PlayStart
  <2> HIDE DEF e
  <2>3. Handles(c, Called(e, "OnPlay"))
    BY <2>2, CalledHandles
  <2> QED BY <2>3 DEF HandlePlay, d, e
<1>6. Handles(c, HandlePublish(c))
  <2> DEFINE e == SendStatus(c, PublishStart)
  <2>1. Handles(c, e)
    BY <1>0, <1>1 DEF PublishStart
  <2> HIDE DEF e
  <2>2. Handles(c, Called(e, "OnPublish"))
    BY <2>1, CalledHandles
  <2> QED BY <2>2 DEF HandlePublish, e
<1>7. Handles(c, HandleConnect(c))
  BY ConnectHandles
<1> QED BY <1>0, <1>2, <1>3, <1>4, <1>5, <1>6, <1>7 DEF HandleAmfCommand

\* A message that is there as a whole.
LEMMA MessageHandles ==
  ASSUME NEW c, Open(c), NEW m, MsgOK(m), NEW type
  PROVE  Handles(c, MessageComplete(c, m, type))
<1>0. Handles(c, c) /\ m.val \in Nat
  BY DEF Handles, Kept, MsgOK
<1>1. Handles(c, HandleChunkSize(c, m.val))
  <2> DEFINE n == [c EXCEPT !.in_chunk_size = m.val]
  <2>1. SameOut(c, n)
    BY DEF Open, OutType, CtxFields, OutFields, SameOut
  <2>2. /\ DOMAIN n = DOMAIN c /\ n.in = c.in /\ n.packets = c.packets /\ n.prev_in = c.prev_in
        /\ n.in_chunk_size = m.val /\ n.ack_size = c.ack_size /\ n.in_bytes = c.in_bytes
        /\ n.last_left = c.last_left /\ n.fed = c.fed /\ n.acked = c.acked
    BY DEF Open, OutType, CtxFields, InFields
  <2> HIDE DEF n
  <2>3. InType(n) /\ Kept(c, n)
    BY <1>0, <2>2 DEF Open, InType, Kept
  <2>4. OutType(n) /\ Busy(n)
    BY <2>1, OutSame DEF Open
  <2> QED BY <2>1, <2>3, <2>4 DEF Handles, Open, SameOut, HandleChunkSize, n
<1>2. Handles(c, HandleAckWindowSize(c, m.val))
  <2> DEFINE n == [c EXCEPT !.ack_size = m.val]
  <2>1. SameOut(c, n)
    BY DEF Open, OutType, CtxFields, OutFields, SameOut
  <2>2. /\ DOMAIN n = DOMAIN c /\ n.in = c.in /\ n.packets = c.packets /\ n.prev_in = c.prev_in
        /\ n.in_chunk_size = c.in_chunk_size /\ n.ack_size = m.val /\ n.in_bytes = c.in_bytes
        /\ n.last_left = c.last_left /\ n.fed = c.fed /\ n.acked = c.acked
    BY DEF Open, OutType, CtxFields, InFields
  <2> HIDE DEF n
  <2>3. InType(n) /\ Kept(c, n)
    BY <1>0, <2>2 DEF Open, InType, Kept
  <2>4. OutType(n) /\ Busy(n)
    BY <2>1, OutSame DEF Open
  <2> QED BY <2>1, <2>3, <2>4 DEF Handles, Open, SameOut, HandleAckWindowSize, n
<1>3. Handles(c, HandleUserMessage(c, m))
  <2>1. Handles(c, PushOutQueue(c, UserControl(m.val)))
    BY <1>0, UserMsgOK, PushHandles
  <2> QED BY <1>0, <2>1 DEF HandleUserMessage
<1>4. Handles(c, Called(c, "OnRecv"))
  BY <1>0, CalledHandles
<1>5. Handles(c, HandleAmfCommand(c, m))
  BY CommandHandles
<1> QED BY <1>0, <1>1, <1>2, <1>3, <1>4, <1>5 DEF MessageComplete

--------------------------------------------------------------------------------
(* Chunks in.                                                              *)

\* A turn of ParseMessage's loop takes from what is counted.
Parses(c, n) ==
  Open(n) /\ n.in_bytes = c.in_bytes /\ n.fed = c.fed /\ n.acked = c.acked

\* What the incoming fields are that parsing assigns.
ParseFields == {"in", "packets", "prev_in", "in_deltas", "in_ext"}

\* A context of which only these differ.
LEMMA ParsesByFields ==
  ASSUME NEW c, Open(c), NEW n, SameOut(c, n),
         n.in_chunk_size = c.in_chunk_size, n.ack_size = c.ack_size, n.in_bytes = c.in_bytes,
         n.last_left = c.last_left, n.fed = c.fed, n.acked = c.acked,
         CellsOK(n.in),
         DOMAIN n.packets = Csids, \A s \in Csids : n.packets[s] = None \/ PacketOK(n.packets[s]),
         DOMAIN n.prev_in = Csids, \A s \in Csids : n.prev_in[s].len \in Nat
  PROVE  Parses(c, n)
<1>1. OutType(c) /\ InType(c) /\ Busy(c) /\ c.st = "message" /\ c.hs # "init"
  BY DEF Open
<1>2. OutType(n) /\ Busy(n) /\ n.st = "message" /\ n.hs # "init"
  BY <1>1, OutSame DEF SameOut
<1>3. InType(n)
  BY <1>1 DEF InType
<1> QED BY <1>2, <1>3 DEF Parses, Open

\* What is remembered of a header.
LEMMA NotedParses ==
  ASSUME NEW c, Open(c), NEW csid \in Csids, NEW packet, PacketOK(packet), NEW h
  PROVE  /\ Parses(c, Noted(c, csid, packet, h))
         /\ Noted(c, csid, packet, h).in = c.in
         /\ PacketOK(Noted(c, csid, packet, h).packets[csid])
<1> DEFINE k == [packet EXCEPT !.ts = h.ts]
           n == Noted(c, csid, packet, h)
<1>1. PacketOK(k)
  <2>1. DOMAIN k = DOMAIN packet /\ k.size = packet.size /\ k.body = packet.body
    BY DEF PacketOK
  <2> HIDE DEF k
  <2> QED BY <2>1 DEF PacketOK
<1> HIDE DEF k
<1>2. SameOut(c, n)
  BY DEF Noted, Open, OutType, CtxFields, OutFields, SameOut
<1>3. /\ n.in = c.in /\ n.prev_in = c.prev_in /\ n.in_chunk_size = c.in_chunk_size
      /\ n.ack_size = c.ack_size /\ n.in_bytes = c.in_bytes /\ n.last_left = c.last_left
      /\ n.fed = c.fed /\ n.acked = c.acked /\ n.packets = [c.packets EXCEPT ![csid] = k]
  BY DEF Noted, Open, OutType, CtxFields, InFields, k
<1> HIDE DEF n
<1>4. InType(c)
  BY DEF Open
<1>5. DOMAIN n.packets = Csids /\ n.packets[csid] = k
  BY <1>3, <1>4 DEF InType
<1>6. \A s \in Csids : n.packets[s] = None \/ PacketOK(n.packets[s])
  BY <1>1, <1>3, <1>4 DEF InType
<1>7. CellsOK(n.in) /\ DOMAIN n.prev_in = Csids /\ \A s \in Csids : n.prev_in[s].len \in Nat
  BY <1>3, <1>4 DEF InType
<1>8. Parses(c, n)
  BY ONLY <1>2, <1>3, <1>5, <1>6, <1>7, ParsesByFields, Open(c)
<1> QED BY <1>1, <1>3, <1>5, <1>8 DEF n

\* A body's chunk, and with the last one the whole message.
LEMMA TakeChunkParses ==
  ASSUME NEW c, Open(c), NEW csid \in Csids, PacketOK(c.packets[csid]),
         NEW head \in Nat \ {0}, head <= Len(c.in), NEW h, h.len \in Nat
  PROVE  Parses(c, TakeChunk(c, csid, head, h).c)
<1> DEFINE packet == c.packets[csid]
           bytes == Min({packet.size - Len(packet.body), c.in_chunk_size})
           body == packet.body \o SubSeq(c.in, head + 1, head + bytes)
           rest == SubSeq(c.in, head + bytes + 1, Len(c.in))
           header == [len |-> h.len, type |-> h.type, sid |-> h.sid, ts |-> h.ts]
           taken == [c EXCEPT !.in = SubSeq(@, head + bytes + 1, Len(@)),
                              !.packets[csid].body = body, !.prev_in[csid] = header]
           m == body[1][3]
           done == [taken EXCEPT !.packets[csid] = None,
                                 !.got = Append(@, [m |-> m, ts |-> h.ts, len |-> h.len,
                                                    type |-> h.type, sid |-> h.sid])]
           bad == [taken EXCEPT !.broken = TRUE]
           last == MessageComplete(done, m, h.type)
           t == TakeChunk(c, csid, head, h)
<1>1. t = IF Len(c.in) - head < bytes THEN Stop(c)
          ELSE IF Len(body) < packet.size THEN GoOn(taken)
          ELSE IF body = <<>> \/ ~Intact(body) THEN Stop(bad)
          ELSE GoOn(last)
  BY DEF TakeChunk
<1> HIDE DEF t, m, done, bad, last, taken, header, rest, body, bytes
<1>2. InType(c) /\ Parses(c, c)
  BY DEF Open, Parses
<1>3. /\ packet.size \in Nat /\ CellsOK(packet.body) /\ Len(packet.body) \in Nat
      /\ Len(packet.body) <= packet.size /\ Len(c.in) \in Nat /\ CellsOK(c.in)
      /\ c.in_chunk_size \in Nat
  BY <1>2, Nonempty DEF PacketOK, InType, CellsOK
<1>4. bytes \in Nat /\ bytes <= packet.size - Len(packet.body)
  <2> DEFINE a == packet.size - Len(packet.body)
             b == c.in_chunk_size
  <2>1. a \in Nat /\ b \in Nat
    BY <1>3
  <2> HIDE DEF a, b
  <2>2. \E x \in {a, b} : \A y \in {a, b} : x <= y
    BY <2>1
  <2>3. Min({a, b}) \in {a, b} /\ Min({a, b}) <= a
    BY <2>2 DEF Min
  <2>4. bytes = Min({a, b})
    BY DEF bytes, a, b
  <2> QED BY <2>1, <2>3, <2>4 DEF a
<1>5. CASE Len(c.in) - head < bytes
  BY <1>1, <1>2, <1>5 DEF Stop, t
<1>6. CASE ~ (Len(c.in) - head < bytes)
  <2>1. head + bytes <= Len(c.in) /\ head + bytes \in Nat /\ head + 1 \in Nat \ {0}
        /\ head + bytes + 1 \in Nat \ {0}
    BY <1>3, <1>4, <1>6
  <2>2. CellsOK(rest)
    BY <1>3, <2>1, SubCells DEF rest
  <2>3. CellsOK(body) /\ Len(body) <= packet.size
    <3> DEFINE p == packet.body
               s == SubSeq(c.in, head + 1, head + bytes)
    <3>1. CellsOK(s) /\ Len(s) = IF head + 1 <= head + bytes THEN (head + bytes) - (head + 1) + 1 ELSE 0
      BY <1>3, <2>1, SubCells
    <3>2. Len(s) = bytes
      BY <1>4, <3>1
    <3> HIDE DEF p, s
    <3>3. CellsOK(p \o s) /\ Len(p \o s) = Len(p) + Len(s)
      BY <1>3, <3>1, ConcatCells DEF p
    <3>4. Len(p \o s) <= packet.size
      BY <1>3, <1>4, <3>2, <3>3 DEF p
    <3> QED BY <3>3, <3>4 DEF body, p, s
  <2> DEFINE k == [packet EXCEPT !.body = body]
  <2>4. PacketOK(k)
    <3>1. DOMAIN k = DOMAIN packet /\ k.size = packet.size /\ k.body = body
      BY DEF PacketOK
    <3> HIDE DEF k
    <3> QED BY <1>3, <2>3, <3>1 DEF PacketOK
  <2>5. /\ taken.in = rest /\ taken.packets = [c.packets EXCEPT ![csid] = k]
        /\ taken.prev_in = [c.prev_in EXCEPT ![csid] = header]
        /\ taken.in_chunk_size = c.in_chunk_size
        /\ taken.ack_size = c.ack_size /\ taken.in_bytes = c.in_bytes
        /\ taken.last_left = c.last_left /\ taken.fed = c.fed /\ taken.acked = c.acked
    BY <1>2 DEF taken, rest, Open, OutType, CtxFields, InFields, InType
  <2>6. SameOut(c, taken)
    BY DEF taken, Open, OutType, CtxFields, OutFields, SameOut
  <2> HIDE DEF k
  <2>7. /\ DOMAIN taken.packets = Csids
        /\ \A s \in Csids : taken.packets[s] = None \/ PacketOK(taken.packets[s])
    BY <1>2, <2>4, <2>5 DEF InType
  <2>8. DOMAIN taken.prev_in = Csids /\ \A s \in Csids : taken.prev_in[s].len \in Nat
    <3>1. header.len \in Nat
      BY DEF header
    <3> QED BY <1>2, <2>5, <3>1 DEF InType
  <2>9. Parses(c, taken)
    <3>1. CellsOK(taken.in)
      BY <2>2, <2>5
    <3> QED BY ONLY <2>5, <2>6, <2>7, <2>8, <3>1, ParsesByFields, Open(c)
  <2>10. Open(taken)
    BY <2>9 DEF Parses
  <2>11. Parses(c, bad)
    <3>1. SameOut(taken, bad) /\ SameIn(taken, bad)
      BY <2>10 DEF bad, Open, OutType, CtxFields, OutFields, InFields, SameOut, SameIn
    <3>2. Open(bad)
      BY <2>10, <3>1, StaysOpen
    <3> QED BY <2>9, <3>1, <3>2 DEF Parses, SameIn
  <2>12. ASSUME body # <<>>, Intact(body) PROVE Parses(c, last)
    <3>1. MsgOK(m)
      <4>1. 1 \in 1 .. Len(body)
        BY <2>3, <2>12, Nonempty DEF CellsOK
      <4>2. body[1] = <<"body", 1, m>> /\ CellOK(body[1])
        BY <2>3, <2>12, <4>1 DEF CellsOK, Intact, m
      <4>3. body[1][1] = "body" /\ body[1][3] = m
        BY <4>2
      <4> QED BY <4>2, <4>3 DEF CellOK
    <3>2. SameOut(taken, done)
      BY <2>10 DEF done, Open, OutType, CtxFields, OutFields, SameOut
    <3>3. /\ done.in = taken.in /\ done.packets = [taken.packets EXCEPT ![csid] = None]
          /\ done.prev_in = taken.prev_in /\ done.in_chunk_size = taken.in_chunk_size
          /\ done.ack_size = taken.ack_size /\ done.in_bytes = taken.in_bytes
          /\ done.last_left = taken.last_left /\ done.fed = taken.fed /\ done.acked = taken.acked
      BY <2>10 DEF done, Open, OutType, CtxFields, InFields
    <3>4. /\ DOMAIN done.packets = Csids
          /\ \A s \in Csids : done.packets[s] = None \/ PacketOK(done.packets[s])
      BY <2>7, <3>3
    <3>5. CellsOK(done.in) /\ DOMAIN done.prev_in = Csids
          /\ \A s \in Csids : done.prev_in[s].len \in Nat
      BY <2>2, <2>5, <2>8, <3>3
    <3>6. Parses(taken, done)
      BY ONLY <2>10, <3>2, <3>3, <3>4, <3>5, ParsesByFields
    <3>7. Handles(done, last)
      BY <3>1, <3>6, MessageHandles DEF Parses, last
    <3> QED BY <2>9, <3>6, <3>7 DEF Parses, Handles, Kept
  <2> QED BY <1>1, <1>6, <2>9, <2>11, <2>12 DEF Stop, GoOn, t
<1> QED BY <1>5, <1>6

\* A header, and the body if it is there.
LEMMA TakeHeaderParses ==
  ASSUME NEW c, Open(c), NEW fmt \in 0 .. 3, NEW csid \in Csids, Len(c.in) > 1
  PROVE  Parses(c, TakeHeader(c, fmt, csid).c)
<1> DEFINE prev == c.prev_in[csid]
           packet == IF c.packets[csid] = None THEN NewPacket(c, fmt, prev) ELSE c.packets[csid]
           h == ReadHeader(c, fmt, csid, prev, packet)
           full == ReadExt(c, fmt, prev, h)
           head == HeaderCells(fmt, h)
           noted == Noted(c, csid, packet, h)
           reread == Noted(c, csid, packet, full)
           last == TakeChunk(reread, csid, head, full)
           t == TakeHeader(c, fmt, csid)
<1>1. t = IF Len(c.in) - 1 < Fields(fmt) THEN Stop(c)
          ELSE IF Len(c.in) < head THEN Stop(noted)
          ELSE last
  BY DEF TakeHeader
<1>2. Parses(c, c) /\ InType(c) /\ CellsOK(c.in) /\ Len(c.in) \in Nat
  BY Nonempty DEF Parses, Open, InType, CellsOK
<1>3. CASE Len(c.in) - 1 < Fields(fmt)
  BY <1>1, <1>2, <1>3 DEF Stop
<1>4. CASE ~ (Len(c.in) - 1 < Fields(fmt))
  <2>1. fmt <= 1 => c.in[3][2] \in Nat
    <3>1. fmt <= 1 => 3 \in 1 .. Len(c.in)
      BY <1>2, <1>4 DEF Fields
    <3> QED BY <1>2, <3>1 DEF CellsOK, CellOK
  <2>2. prev.len \in Nat /\ (c.packets[csid] = None \/ PacketOK(c.packets[csid]))
        /\ c.in_chunk_size \in Nat
    BY <1>2 DEF InType
  <2>3. PacketOK(packet)
    <3>1. /\ NewPacket(c, fmt, prev).size \in Nat
          /\ NewPacket(c, fmt, prev).body = <<>>
          /\ {"size", "ts", "body"} \subseteq DOMAIN NewPacket(c, fmt, prev)
      BY <2>1, <2>2 DEF NewPacket
    <3>2. PacketOK(NewPacket(c, fmt, prev))
      BY <3>1, EmptyCells DEF PacketOK
    <3> QED BY <2>2, <3>2
  <2>4. h.len \in Nat
    BY <2>1, <2>2 DEF ReadHeader
  <2>5. full.len = h.len
    BY DEF ReadExt, ReadHeader
  <2>6. head \in Nat \ {0}
    BY DEF HeaderCells, Fields
  <2> HIDE DEF t, prev, packet, h, full, head, last
  <2>7. Parses(c, noted)
    BY <2>3, NotedParses
  <2>8. Parses(c, reread) /\ reread.in = c.in /\ PacketOK(reread.packets[csid])
    BY <2>3, NotedParses
  <2> HIDE DEF noted, reread
  <2>9. ASSUME ~ (Len(c.in) < head) PROVE Parses(c, last.c)
    <3>1. head <= Len(reread.in) /\ Open(reread) /\ full.len \in Nat
      BY <1>2, <2>4, <2>5, <2>6, <2>8, <2>9 DEF Parses
    <3>2. Parses(reread, last.c)
      BY <2>6, <2>8, <3>1, TakeChunkParses DEF last
    <3> QED BY <2>8, <3>2 DEF Parses
  <2> QED BY <1>1, <1>4, <2>7, <2>9 DEF Stop, t
<1> QED BY <1>3, <1>4

\* One turn of ParseMessage's loop, whatever the peer has sent.
LEMMA ChunkParses ==
  ASSUME NEW c, Open(c)
  PROVE  Parses(c, ParseChunk(c).c)
<1> DEFINE stray == [c EXCEPT !.broken = TRUE]
<1>1. Parses(c, c) /\ CellsOK(c.in) /\ Len(c.in) \in Nat
  BY Nonempty DEF Parses, Open, InType, CellsOK
<1>2. Parses(c, stray)
  <2>1. SameOut(c, stray) /\ SameIn(c, stray)
    BY DEF Open, OutType, CtxFields, OutFields, InFields, SameOut, SameIn
  <2> HIDE DEF stray
  <2>2. Open(stray)
    BY <2>1, StaysOpen
  <2> QED BY <2>1, <2>2 DEF Parses, SameIn
<1> HIDE DEF stray
<1>3. ASSUME Len(c.in) > 1, c.in[1][1] = "basic"
      PROVE  Parses(c, TakeHeader(c, c.in[1][2], c.in[1][3]).c)
  <2>1. CellOK(c.in[1])
    BY <1>1, <1>3 DEF CellsOK
  <2>2. c.in[1][2] \in 0 .. 3 /\ c.in[1][3] \in Csids
    BY <1>3, <2>1 DEF CellOK
  <2> QED BY <1>3, <2>2, TakeHeaderParses
<1>4. CASE Len(c.in) <= 1
  BY <1>1, <1>4 DEF ParseChunk, Stop
<1>5. CASE Len(c.in) > 1 /\ c.in[1][1] # "basic"
  <2>1. ParseChunk(c) = Stop(stray)
    BY <1>1, <1>5 DEF ParseChunk, stray
  <2> QED BY <1>2, <2>1 DEF Stop
<1>6. CASE Len(c.in) > 1 /\ c.in[1][1] = "basic"
  <2>1. ParseChunk(c) = TakeHeader(c, c.in[1][2], c.in[1][3])
    BY <1>1, <1>6 DEF ParseChunk
  <2> QED BY <1>3, <1>6, <2>1
<1> QED BY <1>1, <1>4, <1>5, <1>6

\* ParseMessage's loop, after each of its first n turns.
Turn(s) == IF s.more THEN ParseChunk(s.c) ELSE s
Turns(f, c, n) == f = [k \in 0 .. n |-> IF k = 0 THEN GoOn(c) ELSE Turn(f[k - 1])]

\* There are such turns.
LEMMA TurnsExist ==
  ASSUME NEW c, NEW n \in Nat
  PROVE  \E f : Turns(f, c, n)
<1> DEFINE T == {k \in Nat : \E f : Turns(f, c, k)}
<1>1. 0 \in T
  <2> DEFINE e == [k \in 0 .. 0 |-> GoOn(c)]
  <2>1. e = [k \in 0 .. 0 |-> IF k = 0 THEN GoOn(c) ELSE Turn(e[k - 1])]
    OBVIOUS
  <2> HIDE DEF e
  <2>2. Turns(e, c, 0)
    BY <2>1 DEF Turns
  <2> QED BY <2>2
<1>2. ASSUME NEW k \in Nat, k \in T PROVE k + 1 \in T
  <2>1. PICK f : Turns(f, c, k)
    BY <1>2
  <2> DEFINE v == Turn(f[k])
             e == [i \in 0 .. k + 1 |-> IF i = k + 1 THEN v ELSE f[i]]
             W(i) == IF i = 0 THEN GoOn(c) ELSE Turn(e[i - 1])
  <2>2. ASSUME NEW i \in 0 .. k + 1 PROVE e[i] = W(i)
    <3>1. CASE i = k + 1
      <4>1. i # 0 /\ k \in 0 .. k + 1 /\ k # k + 1 /\ i - 1 = k
        BY <3>1
      <4>2. e[i - 1] = f[k] /\ e[i] = v
        BY <3>1, <4>1
      <4> HIDE DEF e
      <4> QED BY <3>1, <4>1, <4>2
    <3>2. CASE i # k + 1
      <4>1. i \in 0 .. k /\ (i # 0 => i - 1 \in 0 .. k + 1 /\ i - 1 # k + 1)
        BY <3>2
      <4>2. e[i] = f[i] /\ (i # 0 => e[i - 1] = f[i - 1])
        BY <3>2, <4>1
      <4>3. f[i] = IF i = 0 THEN GoOn(c) ELSE Turn(f[i - 1])
        BY <2>1, <4>1 DEF Turns
      <4> HIDE DEF e
      <4> QED BY <4>2, <4>3
    <3> QED BY <3>1, <3>2
  <2>3. e = [i \in 0 .. k + 1 |-> W(i)]
    <3> HIDE DEF W
    <3> QED BY <2>2
  <2>4. Turns(e, c, k + 1)
    <3> HIDE DEF e
    <3> QED BY <2>3 DEF Turns, W
  <2> HIDE DEF e
  <2> QED BY <2>4
<1> HIDE DEF T
<1>3. n \in T
  BY <1>1, <1>2, SetInduction
<1> QED BY <1>3 DEF T

\* All the chunks at hand.
LEMMA ChunksParse ==
  ASSUME NEW c, Open(c)
  PROVE  Parses(c, ParseChunks(c))
<1> DEFINE n == Len(c.in)
           g == CHOOSE f : Turns(f, c, n)
<1>1. ParseChunks(c) = g[n].c
  BY DEF ParseChunks, Turns, Turn
<1>2. n \in Nat
  BY Nonempty DEF Open, InType, CellsOK
<1> HIDE DEF n
<1>3. Turns(g, c, n)
  BY <1>2, TurnsExist
<1> HIDE DEF g
<1> DEFINE T == {k \in Nat : k \in 0 .. n => Parses(c, g[k].c)}
<1>4. 0 \in T
  <2>1. g[0] = GoOn(c)
    BY <1>2, <1>3 DEF Turns
  <2> QED BY <2>1 DEF Parses, GoOn
<1>5. ASSUME NEW k \in Nat, k \in T PROVE k + 1 \in T
  <2> SUFFICES ASSUME k + 1 \in 0 .. n PROVE Parses(c, g[k + 1].c)
    BY DEF T
  <2>1. k \in 0 .. n /\ (k + 1) - 1 = k /\ k + 1 # 0
    BY <1>2
  <2>2. g[k + 1] = Turn(g[k])
    BY <1>3, <2>1 DEF Turns
  <2>3. Parses(c, g[k].c)
    BY <1>5, <2>1
  <2>4. Parses(g[k].c, ParseChunk(g[k].c).c)
    BY <2>3, ChunkParses DEF Parses
  <2> QED BY <2>2, <2>3, <2>4 DEF Turn, Parses
<1> HIDE DEF T
<1>6. n \in T
  BY <1>2, <1>4, <1>5, SetInduction
<1> QED BY <1>1, <1>2, <1>6 DEF T

\* The books of what came, over numbers.
LEMMA Balance ==
  ASSUME NEW x \in Nat, NEW y \in Nat, NEW l \in Nat, NEW f \in Nat, NEW k \in Nat,
         x + y + l = f + k, k <= l
  PROVE  /\ x + (y + (l - k)) = f
         /\ k = l => x + y = f
         /\ k = 0 /\ x = 0 /\ y = 0 => x + y = 0 /\ f = l
         /\ \A n \in Nat : x + y + (l + n) = (f + n) + k /\ k <= l + n
OBVIOUS

\* What comes is counted once, and acknowledged when it is enough.
LEMMA ParseMessageOK ==
  ASSUME NEW c, Open(c), Accounted(c)
  PROVE  /\ Open(ParseMessage(c)) /\ Accounted(ParseMessage(c))
         /\ Booked(ParseMessage(c))
<1> DEFINE added == Len(c.in) - c.last_left
           a == CountBytes(c)
           p == PushOutQueue(a, Control("bytesRead", "bytesRead", a.in_bytes))
           q == [p EXCEPT !.in_bytes = 0, !.acked = @ + a.in_bytes]
           b == SendBytesRecv(a)
           d == ParseChunks(b)
           n == ParseMessage(c)
<1>1. InType(c) /\ OutType(c) /\ Len(c.in) \in Nat /\ added \in Nat
  BY Nonempty DEF Open, InType, Accounted, CellsOK
<1>2. Open(a) /\ a.in_bytes \in Nat /\ a.acked \in Nat /\ a.acked + a.in_bytes = a.fed
  <2>1. SameOut(c, a)
    BY <1>1 DEF CountBytes, OutType, CtxFields, OutFields, SameOut
  <2>2. /\ a.in = c.in /\ a.packets = c.packets /\ a.prev_in = c.prev_in
        /\ a.in_chunk_size = c.in_chunk_size /\ a.ack_size = c.ack_size
        /\ a.in_bytes = c.in_bytes + added /\ a.last_left = c.last_left
        /\ a.fed = c.fed /\ a.acked = c.acked
    BY <1>1 DEF CountBytes, OutType, CtxFields, InFields
  <2> HIDE DEF a, added
  <2>3. InType(a)
    BY <1>1, <2>2 DEF InType
  <2>4. OutType(a) /\ Busy(a)
    BY <2>1, OutSame DEF Open
  <2>5. a.acked + a.in_bytes = a.fed
    <3>1. /\ c.acked \in Nat /\ c.in_bytes \in Nat /\ Len(c.in) \in Nat /\ c.fed \in Nat
          /\ c.last_left \in Nat /\ c.last_left <= Len(c.in)
          /\ c.acked + c.in_bytes + Len(c.in) = c.fed + c.last_left
      BY <1>1 DEF InType, Accounted
    <3>2. c.acked + (c.in_bytes + (Len(c.in) - c.last_left)) = c.fed
      BY ONLY <3>1, Balance
    <3> QED BY ONLY <2>2, <3>2 DEF added
  <2> QED BY <2>1, <2>3, <2>4, <2>5 DEF Open, SameOut, InType
<1>3. d = ParseChunks(SendBytesRecv(CountBytes(c))) /\ n = [d EXCEPT !.last_left = Len(d.in)]
  BY DEF ParseMessage
<1>4. b = IF a.in_bytes >= a.ack_size THEN q ELSE a
  BY DEF SendBytesRecv
<1> HIDE DEF a, d, n
<1>5. Open(b) /\ b.acked + b.in_bytes = b.fed
  <2>1. CASE ~ (a.in_bytes >= a.ack_size)
    BY <1>2, <1>4, <2>1
  <2>2. CASE a.in_bytes >= a.ack_size
    <3>1. Open(p) /\ SameIn(a, p)
      BY <1>2, OwnMsgOK, PushOpens
    <3> HIDE DEF p
    <3>2. SameOut(p, q)
      BY <3>1 DEF Open, OutType, CtxFields, OutFields, SameOut
    <3>3. /\ q.in = p.in /\ q.packets = p.packets /\ q.prev_in = p.prev_in
          /\ q.in_chunk_size = p.in_chunk_size /\ q.ack_size = p.ack_size
          /\ q.in_bytes = 0 /\ q.last_left = p.last_left
          /\ q.fed = p.fed /\ q.acked = p.acked + a.in_bytes
      BY <3>1 DEF Open, OutType, CtxFields, InFields
    <3> HIDE DEF q
    <3>4. q.acked \in Nat /\ q.acked + q.in_bytes = q.fed
      BY <1>2, <3>1, <3>3 DEF SameIn
    <3>5. InType(q)
      BY <3>1, <3>3, <3>4 DEF Open, InType
    <3>6. OutType(q) /\ Busy(q)
      BY <3>1, <3>2, OutSame DEF Open
    <3>7. Open(q)
      BY <3>1, <3>2, <3>5, <3>6 DEF Open, SameOut
    <3> QED BY <1>4, <2>2, <3>4, <3>7
  <2> QED BY <2>1, <2>2
<1> HIDE DEF b
<1>6. Parses(b, d)
  BY <1>5, ChunksParse DEF d
<1>7. Open(d) /\ d.acked + d.in_bytes = d.fed /\ Len(d.in) \in Nat
  BY <1>5, <1>6, Nonempty DEF Parses, Open, InType, CellsOK
<1>8. SameOut(d, n)
  BY <1>3, <1>7 DEF Open, OutType, CtxFields, OutFields, SameOut
<1>9. /\ n.in = d.in /\ n.packets = d.packets /\ n.prev_in = d.prev_in
      /\ n.in_chunk_size = d.in_chunk_size /\ n.ack_size = d.ack_size
      /\ n.in_bytes = d.in_bytes /\ n.last_left = Len(d.in) /\ n.fed = d.fed /\ n.acked = d.acked
  BY <1>3, <1>7 DEF Open, OutType, CtxFields, InFields
<1>10. InType(n) /\ Accounted(n) /\ Booked(n)
  BY <1>7, <1>9 DEF Open, InType, Accounted, Booked
<1>11. OutType(n) /\ Busy(n)
  BY <1>7, <1>8, OutSame DEF Open
<1> QED BY <1>7, <1>8, <1>10, <1>11 DEF Open, SameOut, n

--------------------------------------------------------------------------------
(* The handshake.                                                          *)

\* An open context is in order when what came is counted.
LEMMA OpenIsOK ==
  ASSUME NEW c, Open(c), Accounted(c), Booked(c)
  PROVE  CtxOK(c)
BY DEF Open, CtxOK

\* What the handshake leaves alone, and what is written.
Shaken(c, n) ==
  /\ SameIn(c, n) /\ n.called = c.called /\ n.sending = c.sending
  /\ n.out_queue = c.out_queue /\ n.prev_out = c.prev_out /\ n.bufs = c.bufs

\* A context stays calm.
LEMMA ShakenIsCalm ==
  ASSUME NEW c, Calm(c), NEW n, Shaken(c, n), CellsOK(n.iov), CellsOK(n.wire)
  PROVE  Calm(n)
<1>1. OutType(c) /\ InType(c) /\ Silent(c) /\ SameIn(c, n)
  BY DEF Calm, Shaken
<1>2. OutType(n)
  BY <1>1 DEF OutType, Shaken, SameIn
<1>3. InType(n) /\ Kept(c, n)
  BY <1>1, InSame
<1>4. Silent(n)
  BY <1>1 DEF Silent, Shaken
<1> QED BY <1>2, <1>3, <1>4 DEF Calm, Kept

\* A calm context is in order outside of kRtmpMessage.
LEMMA CalmIsOK ==
  ASSUME NEW c, Calm(c), c.st \in {"handshake", "waiting"},
         c.st = "handshake" /\ c.hs \in Waits => c.iov = <<>>,
         c.st # "handshake" => c.hs # "init"
  PROVE  CtxOK(c)
<1>1. Len(c.in) \in Nat
  BY Nonempty DEF Calm, InType, CellsOK
<1> QED BY <1>1 DEF Calm, CtxOK, Accounted, Booked, InType

\* In the handshake, after a write: in order, and still there.
Shakes(n) == CtxOK(n) /\ n.st = "handshake"

\* The cells of a handshake packet.
LEMMA HsCells ==
  ASSUME NEW name \in {"C0C1", "S0S1", "C2", "S2"}
  PROVE  CellsOK(HsPacket(name)) /\ CellOK(<<name, 1>>) /\ CellOK(<<name, 2>>)
<1> DEFINE x == <<name, 1>>
           y == <<name, 2>>
           h == <<x, y>>
<1>1. CellOK(x) /\ CellOK(y)
  BY DEF CellOK
<1> HIDE DEF x, y
<1>2. h \in Seq({x, y}) /\ Len(h) = 2 /\ h[1] = x /\ h[2] = y
  OBVIOUS
<1> HIDE DEF h
<1>3. CellsOK(h)
  BY <1>1, <1>2 DEF CellsOK, IsSeq
<1> QED BY <1>1, <1>3 DEF HsPacket, h, x, y

\* A packet that the socket takes.
LEMMA TakenIsCalm ==
  ASSUME NEW c, Calm(c), NEW name \in {"C0C1", "S0S1", "C2", "S2"}
  PROVE  /\ Calm(Taken(c, name)) /\ Taken(c, name).iov = c.iov
         /\ Taken(c, name).st = c.st /\ Taken(c, name).hs = c.hs
<1> DEFINE n == Taken(c, name)
           w == c.wire
           h == HsPacket(name)
<1>1. OutType(c)
  BY DEF Calm
<1> HIDE DEF h
<1>2. /\ n.st = c.st /\ n.hs = c.hs /\ n.iov = c.iov /\ n.wire = w \o h /\ Shaken(c, n)
  BY <1>1 DEF Taken, OutType, CtxFields, OutFields, InFields, Shaken, SameIn, h
<1> HIDE DEF n, w
<1>3. CellsOK(w \o h)
  BY <1>1, HsCells, ConcatCells DEF OutType, w, h
<1>4. Calm(n)
  BY <1>1, <1>2, <1>3, ShakenIsCalm DEF OutType
<1> QED BY <1>2, <1>4 DEF n

\* A packet of which the socket takes a part.
LEMMA QueuedIsOK ==
  ASSUME NEW c, Calm(c), c.st = "handshake", c.hs \notin Waits,
         NEW name \in {"C0C1", "S0S1", "C2", "S2"}
  PROVE  Shakes(Queued(c, name))
<1> DEFINE n == Queued(c, name)
           x == <<name, 1>>
           y == <<name, 2>>
<1>1. OutType(c)
  BY DEF Calm
<1> HIDE DEF x, y
<1>2. /\ n.st = c.st /\ n.hs = c.hs /\ n.wire = Append(c.wire, x) /\ n.iov = Append(c.iov, y)
      /\ Shaken(c, n)
  BY <1>1 DEF Queued, OutType, CtxFields, OutFields, InFields, Shaken, SameIn, x, y
<1> HIDE DEF n
<1>3. CellOK(x) /\ CellOK(y)
  BY HsCells DEF x, y
<1>4. CellsOK(n.wire) /\ CellsOK(n.iov)
  BY <1>1, <1>2, <1>3, AppendCell DEF OutType
<1>5. Calm(n)
  BY <1>2, <1>4, ShakenIsCalm
<1>6. CtxOK(n)
  BY <1>2, <1>5, CalmIsOK
<1> QED BY <1>2, <1>6 DEF Shakes, n

\* The handshake goes on when a packet has left.
LEMMA PostedIsOK ==
  ASSUME NEW c, Calm(c), c.st = "handshake", c.iov = <<>>
  PROVE  Shakes(Posted(c))
<1> DEFINE n == Posted(c)
<1>1. OutType(c)
  BY DEF Calm
<1>2. n.st = c.st /\ n.iov = c.iov /\ n.wire = c.wire /\ Shaken(c, n)
  BY <1>1 DEF Posted, OutType, CtxFields, OutFields, InFields, Shaken, SameIn
<1> HIDE DEF n
<1>3. Calm(n)
  BY <1>1, <1>2, ShakenIsCalm DEF OutType
<1>4. CtxOK(n)
  BY <1>2, <1>3, CalmIsOK
<1> QED BY <1>2, <1>4 DEF Shakes, n

\* hs is set before a packet is written.
LEMMA HsIsCalm ==
  ASSUME NEW c, Calm(c), NEW hs
  PROVE  LET n == [c EXCEPT !.hs = hs]
         IN Calm(n) /\ n.hs = hs /\ n.st = c.st /\ n.iov = c.iov
<1> DEFINE n == [c EXCEPT !.hs = hs]
<1>1. OutType(c)
  BY DEF Calm
<1>2. n.hs = hs /\ n.st = c.st /\ n.iov = c.iov /\ n.wire = c.wire /\ Shaken(c, n)
  BY <1>1 DEF OutType, CtxFields, OutFields, InFields, Shaken, SameIn
<1> HIDE DEF n
<1>3. Calm(n)
  BY <1>1, <1>2, ShakenIsCalm DEF OutType
<1> QED BY <1>2, <1>3 DEF n

\* S2 and C2.
LEMMA SendC2S2OK ==
  ASSUME NEW c, Calm(c), c.st = "handshake", c.hs \notin Waits, c.iov = <<>>,
         NEW name \in {"C2", "S2"}
  PROVE  Shakes(SendC2S2(c, name))
<1>1. Shakes(Queued(c, name))
  BY QueuedIsOK
<1>2. Shakes(Posted(Taken(c, name)))
  <2> DEFINE d == Taken(c, name)
  <2>1. Calm(d) /\ d.iov = <<>> /\ d.st = "handshake"
    BY TakenIsCalm
  <2> HIDE DEF d
  <2>2. Shakes(Posted(d))
    BY <2>1, PostedIsOK
  <2> QED BY <2>2 DEF d
<1> QED BY <1>1, <1>2 DEF SendC2S2

\* A packet has left.
LEMMA WriteCompleteOK ==
  ASSUME NEW c, Calm(c), c.st = "handshake", c.iov = <<>>
  PROVE  Shakes(WriteComplete(c))
<1>1. Shakes(Posted(c))
  BY PostedIsOK
<1>2. Shakes(SendC2S2([c EXCEPT !.hs = "PostS2"], "S2"))
  <2> DEFINE d == [c EXCEPT !.hs = "PostS2"]
  <2>1. Calm(d) /\ d.hs = "PostS2" /\ d.st = "handshake" /\ d.iov = <<>>
    BY HsIsCalm
  <2> HIDE DEF d
  <2>2. Shakes(SendC2S2(d, "S2"))
    BY <2>1, SendC2S2OK DEF Waits
  <2> QED BY <2>2 DEF d
<1> QED BY <1>1, <1>2 DEF WriteComplete

\* C0C1 and S0S1.
LEMMA SendC1S1OK ==
  ASSUME NEW c, Calm(c), c.st = "handshake", c.hs \notin Waits, c.iov = <<>>,
         NEW name \in {"C0C1", "S0S1"}
  PROVE  Shakes(SendC1S1(c, name))
<1>1. Shakes(Queued(c, name))
  BY QueuedIsOK
<1>2. Shakes(WriteComplete(Taken(c, name)))
  <2> DEFINE d == Taken(c, name)
  <2>1. Calm(d) /\ d.iov = <<>> /\ d.st = "handshake"
    BY TakenIsCalm
  <2> HIDE DEF d
  <2>2. Shakes(WriteComplete(d))
    BY <2>1, WriteCompleteOK
  <2> QED BY <2>2 DEF d
<1> QED BY <1>1, <1>2 DEF SendC1S1

\* A handshake packet that is there has two cells.
LEMMA HeldCells ==
  ASSUME NEW c, NEW name, IsSeq(c.in), Holds(c, name)
  PROVE  Len(c.in) >= 2
<1> DEFINE h == HsPacket(name)
<1>1. h = <<<<name, 1>>, <<name, 2>>>> /\ Len(h) = 2 /\ DOMAIN h = 1 .. 2
  BY DEF HsPacket
<1> HIDE DEF h
<1>2. Len(h) <= Len(c.in)
  BY DEF Holds, IsPrefix, h
<1> QED BY <1>1, <1>2

\* What was taken from the buffer.
LEMMA RetrievedIsCalm ==
  ASSUME NEW c, Calm(c), NEW hs, NEW name, Holds(c, name)
  PROVE  LET n == [Retrieved(c) EXCEPT !.hs = hs]
         IN Calm(n) /\ n.hs = hs /\ n.st = c.st /\ n.iov = c.iov
<1> DEFINE q == c.in
           s == SubSeq(q, 3, Len(q))
           d == Retrieved(c)
<1>1. OutType(c) /\ InType(c) /\ CellsOK(q) /\ Len(q) \in Nat /\ c.fed = Len(q)
  BY Nonempty DEF Calm, InType, CellsOK
<1>2. SameOut(c, d)
  BY <1>1 DEF Retrieved, OutType, CtxFields, OutFields, SameOut
<1>3. /\ d.in = s /\ d.packets = c.packets /\ d.prev_in = c.prev_in
      /\ d.in_chunk_size = c.in_chunk_size /\ d.ack_size = c.ack_size
      /\ d.in_bytes = c.in_bytes /\ d.last_left = c.last_left /\ d.fed = c.fed - 2
      /\ d.acked = c.acked
  BY <1>1 DEF Retrieved, OutType, CtxFields, InFields
<1> HIDE DEF d
<1>4. CellsOK(s) /\ Len(s) = Len(q) - 2 /\ Len(q) >= 2
  <2>1. Len(q) >= 2
    BY <1>1, HeldCells DEF CellsOK
  <2>2. CellsOK(s)
    BY <1>1, SubCells
  <2>3. Len(s) = Len(q) - 2
    BY <1>1, <2>1, SubIsSeq DEF CellsOK
  <2> QED BY <2>1, <2>2, <2>3
<1> HIDE DEF s
<1>5. InType(d) /\ d.fed = Len(d.in)
  BY <1>1, <1>3, <1>4 DEF InType
<1>6. Calm(d)
  BY <1>1, <1>2, <1>3, <1>5, OutSame DEF Calm
<1> QED BY <1>2, <1>6, HsIsCalm DEF SameOut, d

\* The end of the handshake.
LEMMA HandShakeDoneOK ==
  ASSUME NEW c, Calm(c), c.iov = <<>>, c.hs # "init"
  PROVE  CtxOK(HandShakeDone(c))
<1> DEFINE d == [c EXCEPT !.st = "message"]
           m1 == Control("setChunkSize", "chunkSize", OutChunkSize)
           m2 == Amf("connect", BigLen, 0, 1)
           e == PushOutQueue(d, m1)
           f == PushOutQueue(e, m2)
<1>1. /\ OutType(c) /\ InType(c) /\ Silent(c) /\ Len(c.in) \in Nat
      /\ c.last_left = 0 /\ c.acked = 0 /\ c.in_bytes = 0 /\ c.fed = Len(c.in)
  BY Nonempty DEF Calm, InType, CellsOK
<1>2. /\ d.st = "message" /\ d.hs = c.hs /\ d.called = c.called /\ d.sending = c.sending
      /\ d.out_queue = c.out_queue /\ d.prev_out = c.prev_out
      /\ d.bufs = c.bufs /\ d.iov = c.iov /\ d.wire = c.wire /\ SameIn(c, d)
  BY <1>1 DEF OutType, CtxFields, OutFields, InFields, SameIn
<1> HIDE DEF d
<1>3. OutType(d)
  BY <1>1, <1>2 DEF OutType, SameIn
<1>4. InType(d) /\ Kept(c, d)
  BY <1>1, <1>2, InSame
<1>5. Open(d)
  BY <1>1, <1>2, <1>3, <1>4 DEF Open, Busy, Silent
<1>6. Accounted(d) /\ Booked(d)
  BY <1>1, <1>4 DEF Accounted, Booked, Kept
<1>7. MsgOK(m1) /\ MsgOK(m2)
  BY RtmpAssumption, OwnMsgOK
<1> HIDE DEF m1, m2
<1>8. Open(e) /\ SameIn(d, e)
  BY <1>5, <1>7, PushOpens
<1> HIDE DEF e
<1>9. Open(f) /\ SameIn(e, f)
  BY <1>7, <1>8, PushOpens
<1> HIDE DEF f
<1>10. Accounted(f) /\ Booked(f)
  BY <1>6, <1>8, <1>9 DEF Accounted, Booked, SameIn
<1>11. HandShakeDone(c) \in {d, f}
  BY DEF HandShakeDone, SendConnect, d, e, f, m1, m2
<1> QED BY <1>5, <1>6, <1>9, <1>10, <1>11, OpenIsOK

\* What touches neither direction's fields keeps a context in order.
LEMMA SameIsOK ==
  ASSUME NEW c, CtxOK(c), NEW n, SameOut(c, n), SameIn(c, n)
  PROVE  CtxOK(n)
<1>1. OutType(c) /\ InType(c) /\ Accounted(c) /\ Booked(c)
  BY DEF CtxOK
<1>2. /\ OutType(n) /\ (Busy(c) => Busy(n)) /\ (Silent(c) => Silent(n))
      /\ InType(n) /\ Kept(c, n)
  BY <1>1, InSame, OutSame
<1>3. Accounted(n) /\ Booked(n) /\ (Calm(c) => Calm(n))
  BY <1>1, <1>2 DEF Accounted, Booked, Calm, Kept
<1> QED BY <1>1, <1>2, <1>3 DEF CtxOK, SameOut

\* The server's half.
LEMMA ServerHandShakeOK ==
  ASSUME NEW c, CtxOK(c), c.st = "handshake"
  PROVE  CtxOK(ServerHandShake(c))
<1>1. Calm(c) /\ (c.hs \in {"WaitC0C1", "WaitC2"} => c.iov = <<>>)
  BY DEF CtxOK, Waits
<1>2. ASSUME c.hs = "WaitC0C1", Holds(c, "C0C1")
      PROVE  CtxOK(SendC1S1([Retrieved(c) EXCEPT !.hs = "PostS0S1"], "S0S1"))
  <2> DEFINE d == [Retrieved(c) EXCEPT !.hs = "PostS0S1"]
  <2>1. Calm(d) /\ d.hs = "PostS0S1" /\ d.st = "handshake" /\ d.iov = <<>>
    BY <1>1, <1>2, RetrievedIsCalm
  <2> HIDE DEF d
  <2>2. Shakes(SendC1S1(d, "S0S1"))
    BY <2>1, SendC1S1OK DEF Waits
  <2> QED BY <2>2 DEF Shakes, d
<1>3. CtxOK([c EXCEPT !.closed = TRUE])
  <2> DEFINE d == [c EXCEPT !.closed = TRUE]
  <2>1. SameOut(c, d) /\ SameIn(c, d)
    BY DEF CtxOK, OutType, CtxFields, OutFields, InFields, SameOut, SameIn
  <2> HIDE DEF d
  <2>2. CtxOK(d)
    BY <2>1, SameIsOK
  <2> QED BY <2>2 DEF d
<1>4. ASSUME c.hs = "WaitC2", Holds(c, "C2")
      PROVE  CtxOK(HandShakeDone([Retrieved(c) EXCEPT !.hs = "Done"]))
  <2> DEFINE d == [Retrieved(c) EXCEPT !.hs = "Done"]
  <2>1. Calm(d) /\ d.hs = "Done" /\ d.iov = <<>>
    BY <1>1, <1>4, RetrievedIsCalm
  <2> HIDE DEF d
  <2>2. CtxOK(HandShakeDone(d))
    BY <2>1, HandShakeDoneOK
  <2> QED BY <2>2 DEF d
<1> QED BY <1>2, <1>3, <1>4 DEF ServerHandShake

\* The other implementation's half.
LEMMA TakeS2OK ==
  ASSUME NEW c, CtxOK(c), c.st = "handshake"
  PROVE  CtxOK(TakeS2(c))
<1>1. Calm(c) /\ (c.hs = "WaitS2" => c.iov = <<>>)
  BY DEF CtxOK, Waits
<1>2. ASSUME c.hs = "WaitS2", Holds(c, "S2")
      PROVE  CtxOK(HandShakeDone([Retrieved(c) EXCEPT !.hs = "Done"]))
  <2> DEFINE d == [Retrieved(c) EXCEPT !.hs = "Done"]
  <2>1. Calm(d) /\ d.hs = "Done" /\ d.iov = <<>>
    BY <1>1, <1>2, RetrievedIsCalm
  <2> HIDE DEF d
  <2>2. CtxOK(HandShakeDone(d))
    BY <2>1, HandShakeDoneOK
  <2> QED BY <2>2 DEF d
<1>3. ASSUME Holds(c, "S2")
      PROVE  CtxOK([Retrieved(c) EXCEPT !.hs = "Doning", !.st = "waiting"])
  <2> DEFINE d == [Retrieved(c) EXCEPT !.hs = "Doning"]
             e == [d EXCEPT !.st = "waiting"]
  <2>1. Calm(d) /\ d.hs = "Doning"
    BY <1>1, <1>3, RetrievedIsCalm
  <2>2. [Retrieved(c) EXCEPT !.hs = "Doning", !.st = "waiting"] = e
    OBVIOUS
  <2> HIDE DEF d
  <2>3. OutType(d)
    BY <2>1 DEF Calm
  <2>4. e.st = "waiting" /\ e.hs = d.hs /\ e.iov = d.iov /\ e.wire = d.wire /\ Shaken(d, e)
    BY <2>3 DEF OutType, CtxFields, OutFields, InFields, Shaken, SameIn
  <2> HIDE DEF e
  <2>5. Calm(e)
    BY <2>1, <2>3, <2>4, ShakenIsCalm DEF OutType
  <2>6. CtxOK(e)
    BY <2>1, <2>4, <2>5, CalmIsOK
  <2> QED BY <2>2, <2>6
<1> QED BY <1>2, <1>3 DEF TakeS2

\* C2 answers S0S1.
LEMMA ClientHandShakeOK ==
  ASSUME NEW c, CtxOK(c), c.st = "handshake"
  PROVE  CtxOK(ClientHandShake(c))
<1>1. Calm(c) /\ (c.hs = "WaitS0S1" => c.iov = <<>>)
  BY DEF CtxOK, Waits
<1>2. ASSUME c.hs = "WaitS0S1", Holds(c, "S0S1")
      PROVE  CtxOK(TakeS2(SendC2S2([Retrieved(c) EXCEPT !.hs = "PostC2"], "C2")))
  <2> DEFINE d == [Retrieved(c) EXCEPT !.hs = "PostC2"]
             e == SendC2S2(d, "C2")
  <2>1. Calm(d) /\ d.hs = "PostC2" /\ d.st = "handshake" /\ d.iov = <<>>
    BY <1>1, <1>2, RetrievedIsCalm
  <2> HIDE DEF d
  <2>2. Shakes(e)
    BY <2>1, SendC2S2OK DEF Waits
  <2> HIDE DEF e
  <2>3. CtxOK(TakeS2(e))
    BY <2>2, TakeS2OK DEF Shakes
  <2> QED BY <2>3 DEF d, e
<1> QED BY <1>2, TakeS2OK DEF ClientHandShake

--------------------------------------------------------------------------------
(* The steps of the two ends.                                              *)

\* Bytes that are parsed; those that just came are not counted yet.
LEMMA ParseOK ==
  ASSUME NEW c, c.st \in {"handshake", "waiting", "message"},
         c.st = "message" => Open(c) /\ Accounted(c),
         c.st # "message" => CtxOK(c)
  PROVE  CtxOK(Parse(c))
<1>1. ASSUME NEW d, Open(d), Accounted(d) PROVE CtxOK(ParseMessage(d))
  BY <1>1, ParseMessageOK, OpenIsOK
<1>2. ASSUME c.st = "handshake" PROVE CtxOK(ParseRest(HandShake(c)))
  <2> DEFINE d == HandShake(c)
  <2>1. CtxOK(d)
    BY <1>2, ServerHandShakeOK, ClientHandShakeOK DEF HandShake
  <2> HIDE DEF d
  <2>2. d.st = "message" => Open(d) /\ Accounted(d)
    BY <2>1 DEF CtxOK, Open
  <2>3. CtxOK(ParseRest(d))
    BY <1>1, <2>1, <2>2 DEF ParseRest
  <2> QED BY <2>3 DEF d
<1> QED BY <1>1, <1>2 DEF Parse

\* The connection has written everything.
LEMMA OnWriteCompleteOK ==
  ASSUME NEW c, OutType(c), InType(c), Accounted(c), Booked(c),
         c.st \in {"handshake", "waiting", "message"},
         c.st # "message" => Calm(c), c.st # "handshake" => c.hs # "init", c.iov = <<>>
  PROVE  CtxOK(OnWriteComplete(c))
<1>1. CASE c.st = "handshake"
  BY <1>1, WriteCompleteOK DEF OnWriteComplete, Shakes
<1>2. CASE c.st = "waiting"
  BY <1>2, HandShakeDoneOK DEF OnWriteComplete
<1>3. CASE c.st = "message"
  <2> DEFINE n == CheckAndSend(c)
  <2>1. Open(n) /\ SameIn(c, n)
    BY <1>3, CheckOpens
  <2>2. OnWriteComplete(c) = n
    BY <1>3 DEF OnWriteComplete
  <2> HIDE DEF n
  <2>3. Accounted(n) /\ Booked(n)
    BY <2>1 DEF Accounted, Booked, SameIn
  <2> QED BY <2>1, <2>2, <2>3, OpenIsOK
<1> QED BY <1>1, <1>2, <1>3

\* The end of a step of an end.
LEMMA SettledOK ==
  ASSUME NEW c, CtxOK(c)
  PROVE  CtxOK(Settled(c))
<1> DEFINE n == Settled(c)
<1>1. SameOut(c, n) /\ SameIn(c, n)
  BY DEF Settled, CtxOK, OutType, CtxFields, OutFields, InFields, SameOut, SameIn
<1> HIDE DEF n
<1>2. CtxOK(n)
  BY <1>1, SameIsOK
<1> QED BY <1>2 DEF n

\* One end changes.
LEMMA OneEnd ==
  ASSUME RtmpInv, NEW p \in Peers, NEW n, CtxOK(n), cx' = [cx EXCEPT ![p] = n]
  PROVE  RtmpInv'
BY DEF RtmpInv

\* The socket is connected.
LEMMA ConnectStep ==
  ASSUME RtmpInv, NEW p \in Peers, Connect(p)
  PROVE  RtmpInv'
<1>1. CtxOK(cx[p]) /\ cx[p].hs = "init"
  BY DEF RtmpInv, Connect
<1>2. PICK whole \in 0 .. 1 :
        cx' = [cx EXCEPT ![p] = Settled(Start([cx[p] EXCEPT !.whole = whole]))]
  BY DEF Connect
<1> DEFINE c == [cx[p] EXCEPT !.whole = whole]
           d == [c EXCEPT !.hs = "PostC0C1"]
           e == [c EXCEPT !.hs = "WaitC0C1"]
<1>3. SameOut(cx[p], c) /\ SameIn(cx[p], c)
  BY <1>1 DEF CtxOK, OutType, CtxFields, OutFields, InFields, SameOut, SameIn
<1>4. cx' = [cx EXCEPT ![p] = Settled(Start(c))]
  BY <1>2
<1> HIDE DEF c
<1>5. CtxOK(c) /\ c.hs = "init"
  BY <1>1, <1>3, SameIsOK DEF SameOut
<1>6. c.st = "handshake" /\ Calm(c) /\ c.iov = <<>>
  BY <1>5 DEF CtxOK, Waits
<1>7. /\ Calm(d) /\ d.hs = "PostC0C1" /\ d.st = "handshake" /\ d.iov = <<>>
      /\ Calm(e) /\ e.hs = "WaitC0C1" /\ e.st = "handshake" /\ e.iov = <<>>
  BY <1>6, HsIsCalm
<1> HIDE DEF d, e
<1>8. CtxOK(SendC1S1(d, "C0C1")) /\ CtxOK(e)
  BY <1>7, SendC1S1OK, CalmIsOK DEF Waits, Shakes
<1>9. CtxOK(Settled(Start(c)))
  <2>1. Start(c) \in {SendC1S1(d, "C0C1"), e}
    BY DEF Start, d, e
  <2> QED BY <1>8, <2>1, SettledOK
<1> QED BY <1>4, <1>9, OneEnd

\* Bytes come.
LEMMA ReadStep ==
  ASSUME RtmpInv, NEW p \in Peers, Read(p)
  PROVE  RtmpInv'
<1> DEFINE o == Other(p)
           wire == cx[o].wire
<1>1. PICK n \in Pieces(Len(wire)), whole \in 0 .. 2 :
        LET c == [cx[p] EXCEPT !.in = @ \o SubSeq(wire, 1, n), !.fed = @ + n, !.whole = whole]
            left == [cx[o] EXCEPT !.wire = SubSeq(wire, n + 1, Len(wire))]
        IN cx' = [cx EXCEPT ![o] = left, ![p] = Settled(Parse(c))]
  BY DEF Read
<1>2. o \in Peers /\ o # p
  BY DEF Other, Peers
<1> HIDE DEF o
<1>3. CtxOK(cx[p]) /\ CtxOK(cx[o]) /\ DOMAIN cx = Peers
  BY <1>2 DEF RtmpInv
<1>4. CellsOK(wire) /\ Len(wire) \in Nat
  BY <1>3, Nonempty DEF CtxOK, OutType, CellsOK
<1>5. n \in 1 .. Len(wire)
  BY <1>1, <1>4 DEF Pieces
<1> DEFINE s == SubSeq(wire, 1, n)
           r == SubSeq(wire, n + 1, Len(wire))
           c == [cx[p] EXCEPT !.in = @ \o s, !.fed = @ + n, !.whole = whole]
           e == [cx[o] EXCEPT !.wire = r]
           f == Settled(Parse(c))
<1>6. CellsOK(s) /\ CellsOK(r) /\ Len(s) = n
  <2>1. 1 \in Nat \ {0} /\ n \in Nat /\ n <= Len(wire) /\ n + 1 \in Nat \ {0}
    BY <1>4, <1>5
  <2>2. Len(s) = n
    BY <1>4, <2>1, SubIsSeq DEF CellsOK
  <2> QED BY <1>4, <2>1, <2>2, SubCells
<1>7. cx' = [cx EXCEPT ![o] = e, ![p] = f]
  BY <1>1
<1> HIDE DEF s, r, wire
<1>8. CtxOK(e)
  <2>1. /\ DOMAIN e = DOMAIN cx[o] /\ e.st = cx[o].st /\ e.hs = cx[o].hs
        /\ e.called = cx[o].called /\ e.sending = cx[o].sending
        /\ e.out_queue = cx[o].out_queue /\ e.prev_out = cx[o].prev_out
        /\ e.bufs = cx[o].bufs /\ e.iov = cx[o].iov /\ e.wire = r /\ SameIn(cx[o], e)
    BY <1>3 DEF CtxOK, OutType, CtxFields, OutFields, InFields, SameIn
  <2> HIDE DEF e
  <2> DEFINE g == cx[o]
  <2>2. CtxOK(g) /\ OutType(g) /\ InType(g)
    BY <1>3 DEF CtxOK
  <2>3. OutType(e)
    BY <1>6, <2>1, <2>2 DEF OutType
  <2>4. InType(e) /\ Kept(g, e)
    BY <2>1, <2>2, InSame
  <2>5. /\ e.st = g.st /\ e.hs = g.hs /\ e.called = g.called /\ e.sending = g.sending
        /\ e.out_queue = g.out_queue /\ e.bufs = g.bufs /\ e.iov = g.iov
    BY <2>1
  <2> HIDE DEF g
  <2>6. Accounted(e) /\ Booked(e) /\ (Calm(g) => Calm(e)) /\ (Busy(g) => Busy(e))
    BY <2>2, <2>3, <2>4, <2>5 DEF CtxOK, Accounted, Booked, Calm, Busy, Silent, Kept
  <2> QED BY ONLY <2>2, <2>3, <2>4, <2>5, <2>6 DEF CtxOK
<1>9. /\ c.st \in {"handshake", "waiting", "message"}
      /\ c.st = "message" => Open(c) /\ Accounted(c)
      /\ c.st # "message" => CtxOK(c)
  <2> DEFINE g == cx[p]
             q == g.in
             i == q \o s
  <2>1. CtxOK(g) /\ OutType(g) /\ InType(g)
    BY <1>3 DEF CtxOK
  <2>2. SameOut(g, c)
    BY <2>1 DEF OutType, CtxFields, OutFields, SameOut
  <2>3. /\ c.in = i /\ c.packets = g.packets /\ c.prev_in = g.prev_in
        /\ c.in_chunk_size = g.in_chunk_size /\ c.ack_size = g.ack_size
        /\ c.in_bytes = g.in_bytes /\ c.last_left = g.last_left
        /\ c.fed = g.fed + n /\ c.acked = g.acked
    BY <2>1 DEF OutType, CtxFields, InFields
  <2>4. CellsOK(q)
    BY <2>1 DEF InType
  <2> HIDE DEF g, c, q
  <2>5. CellsOK(i) /\ Len(i) = Len(q) + n /\ Len(q) \in Nat /\ n \in Nat
    BY <1>6, <2>4, ConcatCells
  <2> HIDE DEF i
  <2>6. InType(c)
    BY <2>1, <2>3, <2>5 DEF InType
  <2>7. OutType(c) /\ (Busy(g) => Busy(c)) /\ (Silent(g) => Silent(c))
    BY <2>1, <2>2, OutSame
  <2>8. Accounted(c)
    <3>1. g.acked + g.in_bytes + Len(q) = g.fed + g.last_left /\ g.last_left <= Len(q)
      BY <2>1 DEF CtxOK, Accounted, q
    <3>2. g.acked \in Nat /\ g.in_bytes \in Nat /\ g.fed \in Nat /\ g.last_left \in Nat
      BY <2>1 DEF InType
    <3>3. /\ g.acked + g.in_bytes + (Len(q) + n) = (g.fed + n) + g.last_left
          /\ g.last_left <= Len(q) + n
      BY ONLY <2>5, <3>1, <3>2, Balance
    <3> QED BY ONLY <2>3, <2>5, <3>3 DEF Accounted
  <2>9. Calm(g) => Calm(c)
    BY <2>3, <2>5, <2>6, <2>7 DEF Calm, InType, q
  <2>10. ASSUME c.st = "message" PROVE Open(c)
    BY ONLY <2>1, <2>2, <2>6, <2>7, <2>10 DEF CtxOK, SameOut, Open
  <2>11. ASSUME c.st # "message" PROVE CtxOK(c)
    BY ONLY <2>1, <2>2, <2>9, <2>11, CalmIsOK DEF CtxOK, SameOut
  <2>12. c.st \in {"handshake", "waiting", "message"}
    BY ONLY <2>1, <2>2 DEF CtxOK, SameOut
  <2> QED BY <2>8, <2>10, <2>11, <2>12
<1> HIDE DEF c, e
<1>10. CtxOK(f)
  BY <1>9, ParseOK, SettledOK
<1> HIDE DEF f
<1> QED BY <1>2, <1>3, <1>7, <1>8, <1>10 DEF RtmpInv

\* Bytes leave.
LEMMA WriteStep ==
  ASSUME RtmpInv, NEW p \in Peers, Write(p)
  PROVE  RtmpInv'
<1> DEFINE g == cx[p]
           q == g.iov
<1>1. PICK n \in Pieces(Len(q)), whole \in 0 .. 1 :
        LET c == [g EXCEPT !.wire = @ \o SubSeq(q, 1, n), !.iov = SubSeq(@, n + 1, Len(@)),
                           !.whole = whole]
        IN cx' = [cx EXCEPT ![p] = Settled(IF c.iov = <<>> THEN OnWriteComplete(c) ELSE c)]
  BY DEF Write
<1>2. CtxOK(g)
  BY DEF RtmpInv
<1> DEFINE s == SubSeq(q, 1, n)
           r == SubSeq(q, n + 1, Len(q))
           w == g.wire
           x == w \o s
           c == [g EXCEPT !.wire = @ \o SubSeq(q, 1, n), !.iov = SubSeq(@, n + 1, Len(@)),
                          !.whole = whole]
           d == IF c.iov = <<>> THEN OnWriteComplete(c) ELSE c
<1>3. cx' = [cx EXCEPT ![p] = Settled(d)]
  BY <1>1
<1>4. OutType(g) /\ InType(g) /\ CellsOK(q) /\ CellsOK(w) /\ Len(q) \in Nat
  BY <1>2, Nonempty DEF CtxOK, OutType, CellsOK
<1>5. /\ c.st = g.st /\ c.hs = g.hs /\ c.called = g.called /\ c.sending = g.sending
      /\ c.out_queue = g.out_queue /\ c.prev_out = g.prev_out /\ c.bufs = g.bufs
      /\ c.iov = r /\ c.wire = x /\ SameIn(g, c)
  BY <1>4 DEF OutType, CtxFields, OutFields, InFields, SameIn
<1> HIDE DEF c, g, q
<1>6. n \in 1 .. Len(q)
  BY <1>1, <1>4 DEF Pieces
<1>7. CellsOK(s) /\ CellsOK(r)
  <2>1. 1 \in Nat \ {0} /\ n \in Nat /\ n <= Len(q) /\ n + 1 \in Nat \ {0}
    BY <1>4, <1>6
  <2> QED BY <1>4, <2>1, SubCells
<1> HIDE DEF s, r, w
<1>8. CellsOK(x)
  BY <1>4, <1>7, ConcatCells
<1> HIDE DEF x
<1>9. OutType(c)
  BY <1>4, <1>5, <1>7, <1>8 DEF OutType, SameIn
<1>10. InType(c) /\ Kept(g, c)
  BY <1>4, <1>5, InSame
<1>11. Accounted(c) /\ Booked(c) /\ (Calm(g) => Calm(c))
  BY <1>2, <1>5, <1>9, <1>10 DEF CtxOK, Accounted, Booked, Calm, Silent, Kept
<1>12. q # <<>>
  BY <1>4, <1>6, EmptyCells
<1>13. CASE c.iov = <<>>
  <2>1. CtxOK(OnWriteComplete(c))
    <3>1. /\ c.st \in {"handshake", "waiting", "message"}
          /\ c.st # "message" => Calm(c)
          /\ c.st # "handshake" => c.hs # "init"
      BY <1>2, <1>5, <1>11 DEF CtxOK
    <3> QED BY <1>9, <1>10, <1>11, <1>13, <3>1, OnWriteCompleteOK
  <2> QED BY <1>3, <1>13, <2>1, SettledOK, OneEnd
<1>14. CASE c.iov # <<>>
  <2>1. c.st = "message" => Busy(c)
    <3> SUFFICES ASSUME c.st = "message" PROVE Busy(c)
      OBVIOUS
    <3>1. Busy(g) /\ g.sending \in BOOLEAN
      BY <1>2, <1>4, <1>5 DEF CtxOK, OutType
    <3>2. g.sending = TRUE
      BY <1>12, <3>1 DEF Busy, q
    <3> QED BY <1>5, <1>14, <3>2 DEF Busy
  <2>2. ~ (c.st = "handshake" /\ c.hs \in Waits)
    BY <1>2, <1>5, <1>12 DEF CtxOK, q
  <2>3. CtxOK(c)
    BY <1>2, <1>5, <1>9, <1>10, <1>11, <2>1, <2>2 DEF CtxOK
  <2> QED BY <1>3, <1>14, <2>3, SettledOK, OneEnd
<1> QED BY <1>13, <1>14

\* The peer has closed.
LEMMA ReadEndStep ==
  ASSUME RtmpInv, NEW p \in Peers, ReadEnd(p)
  PROVE  RtmpInv'
<1> DEFINE n == [cx[p] EXCEPT !.closed = TRUE]
<1>1. cx' = [cx EXCEPT ![p] = n]
  BY DEF ReadEnd
<1>2. CtxOK(cx[p])
  BY DEF RtmpInv
<1>3. SameOut(cx[p], n) /\ SameIn(cx[p], n)
  BY <1>2 DEF CtxOK, OutType, CtxFields, OutFields, InFields, SameOut, SameIn
<1> HIDE DEF n
<1>4. CtxOK(n)
  BY <1>2, <1>3, SameIsOK
<1> QED BY <1>1, <1>4, OneEnd

\* Whoever was called is past the handshake.
LEMMA CalledIsOpen ==
  ASSUME NEW c, CtxOK(c), c.called # {}
  PROVE  Open(c) /\ Accounted(c) /\ Booked(c)
BY DEF CtxOK, Calm, Silent, Open

\* Frames that are built and sent together.
LEMMA SentFrames ==
  ASSUME NEW c, CtxOK(c), NEW d, Builds(c, d), c.st = "message", c.sending = FALSE, d.bufs # <<>>
  PROVE  CtxOK(Send(d))
<1> DEFINE n == Send(d)
<1>1. OutType(d) /\ SameIn(c, d) /\ InType(c) /\ Accounted(c) /\ Booked(c)
      /\ c.hs # "init" /\ Busy(c)
  BY DEF Builds, CtxOK
<1>2. InType(d)
  BY <1>1, InSame
<1>3. d.st = "message" /\ d.hs # "init" /\ d.sending = FALSE /\ d.iov = <<>>
  BY <1>1 DEF Builds, Busy
<1>4. Open(n) /\ SameIn(d, n)
  BY <1>1, <1>2, <1>3, SendOpens
<1> HIDE DEF n
<1>5. Accounted(n) /\ Booked(n)
  BY <1>1, <1>4 DEF Accounted, Booked, SameIn
<1>6. CtxOK(n)
  BY <1>4, <1>5, OpenIsOK
<1> QED BY <1>6 DEF n

\* Frames have a body.
LEMMA FrameMsgOK ==
  \A csid \in {CsAudio, CsVideo} : MsgOK(Frame(csid, 1)) /\ MsgOK(Frame(csid, BigLen))
BY RtmpAssumption DEF MsgOK, Frame, Msg, CsAudio, CsVideo, Csids

\* A count of frames or pings is not what is sent.
LEMMA HistoryIsOK ==
  ASSUME NEW c, CtxOK(c), NEW k
  PROVE  LET f == [c EXCEPT !.frames = k]
             g == [c EXCEPT !.pings = k]
         IN /\ CtxOK(f) /\ f.st = c.st /\ f.sending = c.sending /\ f.called = c.called
            /\ CtxOK(g) /\ g.st = c.st /\ g.sending = c.sending /\ g.called = c.called
<1> DEFINE f == [c EXCEPT !.frames = k]
           g == [c EXCEPT !.pings = k]
<1>1. SameOut(c, f) /\ SameIn(c, f) /\ SameOut(c, g) /\ SameIn(c, g)
  BY DEF CtxOK, OutType, CtxFields, OutFields, InFields, SameOut, SameIn
<1> HIDE DEF f, g
<1>2. CtxOK(f) /\ CtxOK(g)
  BY <1>1, SameIsOK
<1> QED BY <1>1, <1>2 DEF SameOut, f, g

\* A codec header leaves.
LEMMA PushHeaderStep ==
  ASSUME RtmpInv, NEW p \in Peers, PushHeader(p)
  PROVE  RtmpInv'
<1> DEFINE c == [cx[p] EXCEPT !.frames = @ + 1]
<1>1. PICK csid \in {CsAudio, CsVideo} :
        cx' = [cx EXCEPT ![p] = Send(BuildFrame([cx[p] EXCEPT !.frames = @ + 1], Frame(csid, 1), 0))]
  BY DEF PushHeader
<1> DEFINE m == Frame(csid, 1)
           d == BuildFrame(c, m, 0)
<1>2. CtxOK(cx[p]) /\ cx[p].called # {} /\ cx[p].sending = FALSE
  <2>1. CtxOK(cx[p]) /\ ~cx[p].sending /\ cx[p].called # {}
    BY DEF RtmpInv, PushHeader, HasMedia
  <2> QED BY <2>1 DEF CtxOK, OutType
<1>3. cx' = [cx EXCEPT ![p] = Send(d)]
  BY <1>1
<1>4. CtxOK(c) /\ c.st = "message" /\ c.sending = FALSE
  BY <1>2, HistoryIsOK, CalledIsOpen DEF Open
<1>5. MsgOK(m)
  BY FrameMsgOK
<1> HIDE DEF c, m
<1>6. Builds(c, d) /\ d.bufs # <<>>
  BY <1>4, <1>5, BuildFrameBuilds DEF CtxOK
<1> HIDE DEF d
<1>7. CtxOK(Send(d))
  BY <1>4, <1>6, SentFrames
<1> QED BY <1>3, <1>7, OneEnd

\* Frames leave.
LEMMA PushFramesStep ==
  ASSUME RtmpInv, NEW p \in Peers, PushFrames(p)
  PROVE  RtmpInv'
<1> DEFINE c == [cx[p] EXCEPT !.frames = @ + 2]
<1>1. PICK csid1 \in {CsAudio, CsVideo}, csid2 \in {CsAudio, CsVideo}, ts \in Timestamps :
        cx' = [cx EXCEPT ![p] =
                 Send(BuildFrame(BuildFrame([cx[p] EXCEPT !.frames = @ + 2], Frame(csid1, BigLen), ts),
                                 Frame(csid2, 1), ts))]
  BY DEF PushFrames
<1> DEFINE m1 == Frame(csid1, BigLen)
           m2 == Frame(csid2, 1)
           d == BuildFrame(c, m1, ts)
           e == BuildFrame(d, m2, ts)
<1>2. CtxOK(cx[p]) /\ cx[p].called # {} /\ cx[p].sending = FALSE
  <2>1. CtxOK(cx[p]) /\ ~cx[p].sending /\ cx[p].called # {}
    BY DEF RtmpInv, PushFrames, HasMedia
  <2> QED BY <2>1 DEF CtxOK, OutType
<1>3. cx' = [cx EXCEPT ![p] = Send(e)]
  BY <1>1
<1>4. CtxOK(c) /\ c.st = "message" /\ c.sending = FALSE
  BY <1>2, HistoryIsOK, CalledIsOpen DEF Open
<1>5. MsgOK(m1) /\ MsgOK(m2) /\ ts \in Nat
  <2>1. ts \in Nat
    BY RtmpAssumption
  <2> QED BY <2>1, FrameMsgOK
<1> HIDE DEF c, m1, m2
<1>6. Builds(c, d) /\ d.bufs # <<>>
  BY <1>4, <1>5, BuildFrameBuilds DEF CtxOK
<1> HIDE DEF d
<1>7. Builds(d, e) /\ e.bufs # <<>>
  BY <1>5, <1>6, BuildFrameBuilds DEF Builds
<1> HIDE DEF e
<1>8. Builds(c, e)
  BY <1>6, <1>7 DEF Builds, SameIn
<1>9. CtxOK(Send(e))
  BY <1>4, <1>7, <1>8, SentFrames
<1> QED BY <1>3, <1>9, OneEnd

\* The client asks.
LEMMA PingStep ==
  ASSUME RtmpInv, Ping
  PROVE  RtmpInv'
<1> DEFINE g == cx["client"]
           c == [g EXCEPT !.pings = @ + 1]
           m == Control("ping", "userControl", 1)
           n == PushOutQueue(c, m)
<1>1. "client" \in Peers /\ CtxOK(g) /\ g.called # {}
  BY DEF RtmpInv, Peers, Ping
<1>2. cx' = [cx EXCEPT !["client"] = n]
  BY DEF Ping
<1>3. CtxOK(c) /\ c.called # {}
  BY <1>1, HistoryIsOK
<1> HIDE DEF c, g
<1>4. Open(c) /\ Accounted(c) /\ Booked(c) /\ MsgOK(m)
  BY <1>3, CalledIsOpen, OwnMsgOK
<1> HIDE DEF m
<1>5. Open(n) /\ SameIn(c, n)
  BY <1>4, PushOpens
<1> HIDE DEF n
<1>6. Accounted(n) /\ Booked(n)
  BY <1>4, <1>5 DEF Accounted, Booked, SameIn
<1>7. CtxOK(n)
  BY <1>5, <1>6, OpenIsOK
<1> QED BY <1>1, <1>2, <1>7, OneEnd

\* Both ends begin in order.
LEMMA RtmpStarts ==
  ASSUME Init
  PROVE  RtmpInv
<1>1. cx = [p \in Peers |-> NewContext(p)]
  BY DEF Init
<1>2. ASSUME NEW p \in Peers PROVE CtxOK(NewContext(p))
  <2> DEFINE c == NewContext(p)
  <2>1. /\ c.st = "handshake" /\ c.hs = "init" /\ c.out_queue = <<>> /\ c.sending = FALSE
        /\ c.bufs = <<>> /\ c.prev_out = [s \in Csids |-> None] /\ c.iov = <<>> /\ c.wire = <<>>
        /\ c.in = <<>> /\ c.prev_in = [s \in Csids |-> NoHeader]
        /\ c.packets = [s \in Csids |-> None]
        /\ c.in_chunk_size = InChunkSize /\ c.ack_size = AckSize /\ c.in_bytes = 0
        /\ c.last_left = 0 /\ c.called = {} /\ c.fed = 0 /\ c.acked = 0
        /\ CtxFields \subseteq DOMAIN c
    BY DEF NewContext, CtxFields, OutFields, InFields
  <2> HIDE DEF c
  <2>2. NoHeader.len = 0
    BY DEF NoHeader
  <2>3. OutType(c)
    <3>1. CellsOK(c.iov) /\ CellsOK(c.bufs) /\ CellsOK(c.wire) /\ IsSeq(c.out_queue)
      BY <2>1, EmptyCells
    <3>2. \A i \in 1 .. Len(c.out_queue) : MsgOK(c.out_queue[i])
      BY <2>1, EmptyCells
    <3>3. /\ CtxFields \subseteq DOMAIN c /\ c.sending \in BOOLEAN
          /\ DOMAIN c.prev_out = Csids /\ \A s \in Csids : c.prev_out[s] = None
      BY <2>1
    <3> QED BY <3>1, <3>2, <3>3 DEF OutType
  <2>4. InType(c)
    BY <2>1, <2>2, EmptyCells, RtmpAssumption DEF InType
  <2>5. Calm(c)
    BY <2>1, <2>3, <2>4, EmptyCells DEF Calm, Silent
  <2>6. CtxOK(c)
    BY <2>1, <2>5, CalmIsOK
  <2> QED BY <2>6 DEF c
<1> QED BY <1>1, <1>2 DEF RtmpInv

\* RtmpContext's inductive invariant: an end that is past the handshake is sending exactly
\* while the connection has bytes of it; one that is not has asked for nothing and, where
\* it waits for the peer, has written everything; cells and packets are well-formed.
THEOREM RtmpInvariant == Spec => []RtmpInv
<1>1. Init => RtmpInv
  BY RtmpStarts
<1>2. RtmpInv /\ [Next]_vars => RtmpInv'
  <2> SUFFICES ASSUME RtmpInv, [Next]_vars PROVE RtmpInv'
    OBVIOUS
  <2>1. ASSUME NEW p \in Peers,
               Connect(p) \/ Read(p) \/ Write(p) \/ ReadEnd(p) \/ PushHeader(p) \/ PushFrames(p)
        PROVE  RtmpInv'
    BY <2>1, ConnectStep, ReadStep, WriteStep, ReadEndStep, PushHeaderStep, PushFramesStep
  <2>2. CASE UNCHANGED vars
    BY <2>2 DEF vars, RtmpInv
  <2> QED BY <2>1, <2>2, PingStep DEF Next
<1> QED BY <1>1, <1>2, PTL DEF Spec

\* A context is sending exactly while the connection has bytes of it, whatever the peer
\* sends and however reads and writes are cut (Send, CheckAndSend).
THEOREM SendsWhileBusy == Spec => []SendingIsBusy
<1>1. RtmpInv => SendingIsBusy
  BY DEF RtmpInv, CtxOK, OutType, Busy, SendingIsBusy
<1> QED BY <1>1, RtmpInvariant, PTL

\* Every byte that comes after the handshake is acknowledged or counted, and none twice
\* (ParseMessage, SendBytesRecv): the bytes are those that reads delivered, the books are
\* kept by what the last read left over.
THEOREM CountsOnce == Spec => []BytesCountedOnce
<1>1. RtmpInv => BytesCountedOnce
  <2> SUFFICES ASSUME RtmpInv, NEW p \in Peers
               PROVE  LET counted == cx[p].acked + cx[p].in_bytes
                      IN IF cx[p].st = "message"
                         THEN counted = cx[p].fed \/ (counted = 0 /\ cx[p].fed = Len(cx[p].in))
                         ELSE counted = 0
    BY DEF BytesCountedOnce
  <2>1. CtxOK(cx[p])
    BY DEF RtmpInv
  <2>2. Len(cx[p].in) \in Nat /\ cx[p].fed \in Nat /\ cx[p].acked \in Nat
        /\ cx[p].in_bytes \in Nat
    BY <2>1, Nonempty DEF CtxOK, InType, CellsOK
  <2>3. CASE cx[p].st = "message"
    <3>1. Accounted(cx[p]) /\ Booked(cx[p])
      BY <2>1 DEF CtxOK
    <3>2. cx[p].last_left \in Nat
      BY <2>1 DEF CtxOK, InType
    <3>3. cx[p].last_left <= Len(cx[p].in) /\ cx[p].acked + cx[p].in_bytes + Len(cx[p].in)
                                                = cx[p].fed + cx[p].last_left
      BY <3>1 DEF Accounted
    <3>4. CASE cx[p].last_left = Len(cx[p].in)
      BY ONLY <2>2, <2>3, <3>2, <3>3, <3>4, Balance
    <3>5. CASE cx[p].last_left = 0 /\ cx[p].acked = 0 /\ cx[p].in_bytes = 0
      BY ONLY <2>2, <2>3, <3>2, <3>3, <3>5, Balance
    <3> QED BY ONLY <3>1, <3>4, <3>5 DEF Booked
  <2>4. CASE cx[p].st # "message"
    BY <2>1, <2>2, <2>4 DEF CtxOK, Calm
  <2> QED BY <2>3, <2>4
<1> QED BY <1>1, RtmpInvariant, PTL

================================================================================
