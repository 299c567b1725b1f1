---------------------------- MODULE RtmpContext ----------------------------
(***************************************************************************)
(* The two ends of an RTMP connection (mmedia/rtmp/RtmpContext.cpp,        *)
(* RtmpHandShake.cpp, RtmpServer.cpp, RtmpClient.cpp) over a TCP           *)
(* connection that takes and delivers bytes in pieces of any size.         *)
(*                                                                         *)
(* All that happens at one end happens on the loop of its connection: a    *)
(* handler is an operator on the context's record, with every call it makes*)
(* composed into it, and the actions at the end of the module apply one    *)
(* handler to one end.  The stream of bytes is a sequence of cells, one per*)
(* header field and one per unit of a body; a partial read or write may end*)
(* after any of them.                                                      *)
(*                                                                         *)
(* The client's half of HandShake is a stub in the repository: nothing is  *)
(* done in WaitS0S1 and WaitS2 (RtmpHandShake.cpp:357-362), so that its own*)
(* client never connects.  The client here is another implementation's up  *)
(* to the end of the handshake, and RtmpContext's from there on.           *)
(***************************************************************************)
EXTENDS Naturals, Sequences, SequencesExt

CONSTANTS
  InChunkSize,   \* in_chunk_size_ before the peer's SetChunkSize (128)
  OutChunkSize,  \* out_chunk_size_ (4096)
  BigLen,        \* length of connect, its result and a large frame
  AckSize,       \* ack_size_ before the peer's window size (2500000)
  SendBatch,     \* queued messages that one Send takes (10)
  ExtTs,         \* 0xFFFFFF, the escape of the 24-bit timestamp
  TsByte,        \* values of half a 32-bit timestamp
  Timestamps,    \* timestamps of frames
  MaxFrames,     \* bound: frames sent by the end that has media
  MaxPings,      \* bound: ping requests of the client
  MaxSplits,     \* bound: reads and writes that move a part of what there is
  None           \* no header, no packet

ASSUME RtmpAssumption ==
  /\ InChunkSize \in Nat \ {0} /\ OutChunkSize \in Nat \ {0} /\ BigLen \in Nat \ {0}
  /\ AckSize \in Nat \ {0} /\ SendBatch \in Nat \ {0}
  /\ TsByte \in Nat \ {0} /\ ExtTs \in Nat /\ ExtTs < TsByte * TsByte
  /\ Timestamps \subseteq 0 .. TsByte * TsByte - 1

VARIABLES
  role,      \* what the client asks for, "play" or "publish"
  good_c1,   \* whether C1 passes CheckC1S1
  splits,    \* how many reads and writes have moved a part so far
  cx         \* the context at each end

vars == <<role, good_c1, splits, cx>>

Peers == {"server", "client"}
Other(p) == IF p = "server" THEN "client" ELSE "server"

Csids == 2 .. 6      \* RtmpCSID
CsCommand == 2
CsAmf == 3
CsAudio == 4
CsVideo == 6

\* A message and the fields of its header (RtmpMsgHeader).
Msg(kind, csid, type, len, sid, val) ==
  [kind |-> kind, csid |-> csid, type |-> type, len |-> len, sid |-> sid, val |-> val]
Control(kind, type, val) == Msg(kind, CsCommand, type, 1, 0, val)
Amf(kind, len, sid, val) == Msg(kind, CsAmf, "amf", len, sid, val)

NoHeader == [len |-> 0, type |-> "none", sid |-> 0, ts |-> 0]

NewContext(p) ==
  [peer |-> p, st |-> "handshake", hs |-> "init", closed |-> FALSE,
   \* outgoing: out_waiting_queue_, sending_, sending_bufs_, out_message_headers_,
   \* out_deltas_, the connection's io_vec_list_ and what left the socket
   out_queue |-> <<>>, sending |-> FALSE, bufs |-> <<>>,
   prev_out |-> [s \in Csids |-> None], out_deltas |-> [s \in Csids |-> 0],
   iov |-> <<>>, wire |-> <<>>, whole |-> 0,
   \* incoming: message_buffer_, in_message_headers_, in_packets_, in_deltas_, in_ext_
   in |-> <<>>, prev_in |-> [s \in Csids |-> NoHeader], packets |-> [s \in Csids |-> None],
   in_deltas |-> [s \in Csids |-> 0], in_ext |-> [s \in Csids |-> FALSE],
   in_chunk_size |-> InChunkSize, ack_size |-> AckSize, in_bytes |-> 0, last_left |-> 0,
   \* the handler's callbacks; history: messages sent and received, bytes that came for
   \* ParseMessage and those acknowledged
   called |-> {}, frames |-> 0, pings |-> 0,
   sent |-> <<>>, got |-> <<>>, fed |-> 0, acked |-> 0, broken |-> FALSE]

-----------------------------------------------------------------------------
(* Chunks out.                                                             *)

Basic(fmt, csid) == <<"basic", fmt, csid>>
Swapped(ts) == (ts % TsByte) * TsByte + ts \div TsByte

\* The cells of a message: a header with the fields of its fmt, then the body in
\* chunks, each but the first after a header of fmt 3.  A timestamp of ExtTs or more
\* follows every header, in the byte order of the machine.
Chunks(m, fmt, ts) ==
  LET short == IF ts >= ExtTs THEN ExtTs ELSE ts
      fields == <<<<"ts", short>>, <<"len", m.len, m.type>>, <<"sid", m.sid>>>>
      ext == IF short = ExtTs THEN <<<<"ext", Swapped(ts)>>>> ELSE <<>>
      head(f) == <<Basic(f, m.csid)>> \o SubSeq(fields, 1, 3 - f) \o ext
      count == (m.len + OutChunkSize - 1) \div OutChunkSize
      chunk(k) == head(IF k = 1 THEN fmt ELSE 3)
                  \o [i \in 1 .. Min({OutChunkSize, m.len - (k - 1) * OutChunkSize}) |->
                        <<"body", (k - 1) * OutChunkSize + i, m>>]
  IN FlattenSeq([k \in 1 .. count |-> chunk(k)])

\* The end of BuildChunk: the chunks go to sending_bufs_, ts the timestamp for fmt 0
\* and otherwise the difference to the previous message's.
Emit(c, m, fmt, ts) ==
  LET prev == c.prev_out[m.csid]
      now == IF fmt = 0 THEN ts ELSE prev.ts + ts
  IN [c EXCEPT !.bufs = @ \o Chunks(m, fmt, ts),
               !.prev_out[m.csid] = [len |-> m.len, type |-> m.type, sid |-> m.sid, ts |-> now],
               !.out_deltas[m.csid] = IF fmt = 0 THEN 0 ELSE IF fmt = 3 THEN @ ELSE ts]

\* BuildChunk for queued messages: differences to the previous message of the
\* chunk stream when that has the message stream and is not later.
DeltaFmt(prev, m, ts, delta) ==
  IF prev = None \/ ts < prev.ts \/ m.sid # prev.sid THEN 0
  ELSE IF m.type # prev.type \/ m.len # prev.len THEN 1
  ELSE IF ts - prev.ts = delta THEN 3 ELSE 2

BuildChunk(c, m) ==
  LET ts == 0
      prev == c.prev_out[m.csid]
      fmt == DeltaFmt(prev, m, ts, c.out_deltas[m.csid])
  IN Emit(c, m, fmt, IF fmt = 0 THEN ts ELSE ts - prev.ts)

\* BuildChunk for a player's frames.  Its test for a previous header is inverted: with
\* one, fmt is 0 always, and without one it reads through the null pointer unless
\* the caller asks for fmt 0.
BuildFrame(c, m, ts) ==
  Emit([c EXCEPT !.sent = Append(@, [m |-> m, ts |-> ts])], m, 0, ts)

\* The first n messages of the queue, one after the other.
BuildChunks(c, n) ==
  LET built[k \in 0 .. n] == IF k = 0 THEN c ELSE BuildChunk(built[k - 1], c.out_queue[k])
  IN built[n]

\* TcpConnection::SendInLoop(list), which RunInLoop calls at once on the loop.
SendList(c) == [c EXCEPT !.iov = @ \o c.bufs]

Send(c) ==
  IF c.sending THEN c
  ELSE LET n == Min({SendBatch, Len(c.out_queue)})
           built == BuildChunks([c EXCEPT !.sending = TRUE], n)
       IN SendList([built EXCEPT !.out_queue = SubSeq(@, n + 1, Len(@))])

PushOutQueue(c, m) ==
  Send([c EXCEPT !.out_queue = Append(@, m), !.sent = Append(@, [m |-> m, ts |-> 0])])

\* Mutants of CheckAndSend: what waits in the queue is left to the next message; what
\* was sent stays in the list for the next write.
CheckOnly(c) == [c EXCEPT !.sending = FALSE, !.bufs = <<>>]
SendAgain(c) ==
  LET idle == [c EXCEPT !.sending = FALSE]
  IN IF c.out_queue # <<>> THEN Send(idle) ELSE idle
CheckAndSend(c) ==
  LET idle == [c EXCEPT !.sending = FALSE, !.bufs = <<>>]
  IN IF c.out_queue # <<>> THEN Send(idle) ELSE idle

-----------------------------------------------------------------------------
(* The handshake.  C0C1, S0S1, C2 and S2 are two cells each.               *)

HsPacket(name) == <<<<name, 1>>, <<name, 2>>>>
Holds(c, name) == IsPrefix(HsPacket(name), c.in)
Retrieved(c) == [c EXCEPT !.in = SubSeq(@, 3, Len(@)), !.fed = @ - 2]

\* kRtmpMessage, in which the client begins with its chunk size and connect.
SendConnect(c) ==
  PushOutQueue(PushOutQueue(c, Control("setChunkSize", "chunkSize", OutChunkSize)),
               Amf("connect", BigLen, 0, 1))
HandShakeDone(c) ==
  LET open == [c EXCEPT !.st = "message"]
  IN IF c.peer = "client" THEN SendConnect(open) ELSE open

\* TcpConnection::SendInLoop(buf): the socket takes the bytes at once, and the
\* completion comes from within Send, or it takes a part and the rest is queued.
\* c.whole is how many such writes in this handler it takes whole.  Only the completion of
\* S0S1 writes more, and all of them come while st is "handshake".
Taken(c, name) == [c EXCEPT !.wire = @ \o HsPacket(name), !.whole = @ - 1]
Queued(c, name) == [c EXCEPT !.wire = Append(@, <<name, 1>>), !.iov = Append(@, <<name, 2>>)]

Posted(c) ==
  [c EXCEPT !.hs = CASE @ = "PostS2"   -> "WaitC2"
                     [] @ = "PostC0C1" -> "WaitS0S1"
                     [] @ = "PostC2"   -> "WaitS2"
                     [] @ = "Doning"   -> "Done"
                     [] OTHER -> @]
SendC2S2(c, name) == IF c.whole > 0 THEN Posted(Taken(c, name)) ELSE Queued(c, name)
WriteComplete(c) ==
  IF c.hs = "PostS0S1" THEN SendC2S2([c EXCEPT !.hs = "PostS2"], "S2") ELSE Posted(c)
SendC1S1(c, name) == IF c.whole > 0 THEN WriteComplete(Taken(c, name)) ELSE Queued(c, name)

OnWriteComplete(c) ==
  CASE c.st = "handshake" -> WriteComplete(c)
    [] c.st = "waiting"   -> HandShakeDone(c)
    [] c.st = "message"   -> CheckAndSend(c)

\* RtmpHandShake::HandShake at the server, and what Parse does with its result.
\* CheckC1S1 has no definition in the repository; CheckC2S2 accepts everything.
ServerHandShake(c) ==
  CASE c.hs = "WaitC0C1" /\ Holds(c, "C0C1") /\ good_c1 ->
         SendC1S1([Retrieved(c) EXCEPT !.hs = "PostS0S1"], "S0S1")
    [] c.hs = "WaitC0C1" /\ Holds(c, "C0C1") /\ ~good_c1 -> [c EXCEPT !.closed = TRUE]
    [] c.hs = "WaitC2" /\ Holds(c, "C2") ->
         HandShakeDone([Retrieved(c) EXCEPT !.hs = "Done"])
    [] OTHER -> c

\* A client that takes S0S1 and S2 as they come and has sent C2 before it goes on.
\* When S2 is there before C2 has left, Parse is told to wait for that (result 2).
TakeS2(c) ==
  CASE c.hs = "WaitS2" /\ Holds(c, "S2") ->
         HandShakeDone([Retrieved(c) EXCEPT !.hs = "Done"])
    [] c.hs = "PostC2" /\ Holds(c, "S2") ->
         [Retrieved(c) EXCEPT !.hs = "Doning", !.st = "waiting"]
    [] OTHER -> c
ClientHandShake(c) ==
  IF c.hs = "WaitS0S1" /\ Holds(c, "S0S1")
    THEN TakeS2(SendC2S2([Retrieved(c) EXCEPT !.hs = "PostC2"], "C2"))
    ELSE TakeS2(c)

HandShake(c) ==
  IF c.peer = "server" THEN ServerHandShake(c) ELSE ClientHandShake(c)

\* Start sends C0C1 at the client and waits for it at the server.
Start(c) ==
  IF c.peer = "client" THEN SendC1S1([c EXCEPT !.hs = "PostC0C1"], "C0C1")
                       ELSE [c EXCEPT !.hs = "WaitC0C1"]

-----------------------------------------------------------------------------
(* Messages in.                                                            *)

HandleConnect(c) ==
  LET acked == PushOutQueue(c, Control("ackWindow", "windowAckSize", c.ack_size))
      limited == PushOutQueue(acked, Control("peerBandwidth", "setPeerBW", c.ack_size))
      sized == PushOutQueue(limited, Control("setChunkSize", "chunkSize", OutChunkSize))
  IN PushOutQueue(sized, Amf("_result", BigLen, 0, 1))

HandleCreateStream(c, tran_id) == PushOutQueue(c, Amf("_result", 1, 0, tran_id))

\* The codes of onStatus: NetStream.Play.Start and NetStream.Publish.Start.
PlayStart == 1
PublishStart == 2
SendStatus(c, code) == PushOutQueue(c, Amf("onStatus", 1, 1, code))

\* SendUserCtrlMessage writes the type and the value to the same place: what
\* arrives as the type is the upper half of the value, 0 for all values in use.
UserControl(value) == Control("userControl", "userControl", value \div (TsByte * TsByte))
Called(c, what) == [c EXCEPT !.called = @ \cup {what}]
HandlePlay(c) ==
  Called(SendStatus(PushOutQueue(c, UserControl(1)), PlayStart), "OnPlay")
HandlePublish(c) == Called(SendStatus(c, PublishStart), "OnPublish")

\* _result 1 answers connect and 4 createStream; none answers publish.
SendCreateStream(c) == PushOutQueue(c, Amf("createStream", 1, 0, 4))
SendPlay(c) == PushOutQueue(c, Amf("play", 1, 1, 0))
SendPublish(c) == PushOutQueue(c, Amf("publish", 1, 1, 5))
HandleResult(c, id) ==
  CASE id = 1 -> SendCreateStream(c)
    [] id = 4 -> IF role = "play" THEN SendPlay(c) ELSE SendPublish(c)
    [] OTHER -> c
HandleStatus(c, code) ==
  CASE code = PlayStart -> Called(c, "OnPlay")
    [] code = PublishStart -> Called(c, "OnPublish")
    [] OTHER -> c

HandleAmfCommand(c, m) ==
  CASE m.kind = "connect" -> HandleConnect(c)
    [] m.kind = "createStream" -> HandleCreateStream(c, m.val)
    [] m.kind = "_result" -> HandleResult(c, m.val)
    [] m.kind = "onStatus" -> HandleStatus(c, m.val)
    [] m.kind = "play" -> HandlePlay(c)
    [] m.kind = "publish" -> HandlePublish(c)
    [] OTHER -> c

\* A ping request is answered, with a type the peer reads as another one.
HandleUserMessage(c, m) == IF m.kind = "ping" THEN PushOutQueue(c, UserControl(m.val)) ELSE c

\* Mutant of HandleChunkSize: the new size is used for what is sent only.
IgnoreChunkSize(c, size) == c
HandleChunkSize(c, size) == [c EXCEPT !.in_chunk_size = size]
HandleAckWindowSize(c, size) == [c EXCEPT !.ack_size = size]

MessageComplete(c, m, type) ==
  CASE type = "chunkSize" -> HandleChunkSize(c, m.val)
    [] type = "windowAckSize" -> HandleAckWindowSize(c, m.val)
    [] type = "userControl" -> HandleUserMessage(c, m)
    [] type = "amf" -> HandleAmfCommand(c, m)
    [] type \in {"audio", "video"} -> Called(c, "OnRecv")
    [] OTHER -> c      \* bytesRead is only logged, setPeerBW not supported

\* After every ack_size_ bytes the peer is told how many came.
SendBytesRecv(c) ==
  IF c.in_bytes >= c.ack_size
    THEN [PushOutQueue(c, Control("bytesRead", "bytesRead", c.in_bytes))
            EXCEPT !.in_bytes = 0, !.acked = @ + c.in_bytes]
    ELSE c

Fields(fmt) == 3 - fmt

\* The header of the chunk at the front of the buffer, as read against the previous
\* message prev of its chunk stream and the packet begun there, if any.
ReadHeader(c, fmt, csid, prev, packet) ==
  LET ts == IF fmt = 3 THEN 0 ELSE c.in[2][2]
      delta == IF fmt = 0 THEN 0 ELSE IF fmt = 3 THEN c.in_deltas[csid] ELSE ts
      ext == IF fmt = 3 THEN c.in_ext[csid] ELSE ts = ExtTs
  IN [ts |-> CASE fmt = 0 -> ts
               [] fmt \in {1, 2} -> ts + prev.ts
               [] OTHER -> IF packet.ts = 0 THEN delta + prev.ts ELSE packet.ts,
      len |-> IF fmt <= 1 THEN c.in[3][2] ELSE prev.len,
      type |-> IF fmt <= 1 THEN c.in[3][3] ELSE prev.type,
      sid |-> IF fmt = 0 THEN c.in[4][2] ELSE prev.sid,
      delta |-> delta, ext |-> ext]

\* A packet is as large as the message was when its first chunk was seen.
NewPacket(c, fmt, prev) ==
  [size |-> IF fmt <= 1 THEN c.in[3][2] ELSE IF prev.len = 0 THEN c.in_chunk_size ELSE prev.len,
   ts |-> 0, body |-> <<>>]

\* What is read of a chunk's header is kept in the stream's packet, delta and extended
\* flag, before it is known whether the rest is there.
Noted(c, csid, packet, h) ==
  [c EXCEPT !.packets[csid] = [packet EXCEPT !.ts = h.ts],
            !.in_deltas[csid] = h.delta, !.in_ext[csid] = h.ext]

\* The extended timestamp, with which a header ends that has one.
HeaderCells(fmt, h) == 1 + Fields(fmt) + (IF h.ext THEN 1 ELSE 0)
ReadExt(c, fmt, prev, h) ==
  LET swapped == c.in[HeaderCells(fmt, h)][2]
  IN IF h.ext /\ fmt # 0
       THEN [h EXCEPT !.ts = (swapped + prev.ts) % (TsByte * TsByte), !.delta = swapped]
       ELSE h

Intact(body) == \A i \in 1 .. Len(body) : body[i] = <<"body", i, body[1][3]>>

\* One turn of ParseMessage's loop is a context and whether the loop goes on.
Stop(c) == [c |-> c, more |-> FALSE]
GoOn(c) == [c |-> c, more |-> TRUE]

\* The body of a chunk, after head cells of header h; with the last one its message is
\* complete.  A body that is not there as a whole is left, and so is its header.
TakeChunk(c, csid, head, h) ==
  LET packet == c.packets[csid]
      bytes == Min({packet.size - Len(packet.body), c.in_chunk_size})
      body == packet.body \o SubSeq(c.in, head + 1, head + bytes)
      taken == [c EXCEPT !.in = SubSeq(@, head + bytes + 1, Len(@)),
                         !.packets[csid].body = body,
                         !.prev_in[csid] = [len |-> h.len, type |-> h.type,
                                            sid |-> h.sid, ts |-> h.ts]]
      m == body[1][3]
      done == [taken EXCEPT !.packets[csid] = None,
                            !.got = Append(@, [m |-> m, ts |-> h.ts, len |-> h.len,
                                               type |-> h.type, sid |-> h.sid])]
  IN IF Len(c.in) - head < bytes THEN Stop(c)
     ELSE IF Len(body) < packet.size THEN GoOn(taken)
     ELSE IF body = <<>> \/ ~Intact(body) THEN Stop([taken EXCEPT !.broken = TRUE])
     ELSE GoOn(MessageComplete(done, m, h.type))

TakeHeader(c, fmt, csid) ==
  LET prev == c.prev_in[csid]
      packet == IF c.packets[csid] = None THEN NewPacket(c, fmt, prev) ELSE c.packets[csid]
      h == ReadHeader(c, fmt, csid, prev, packet)
      full == ReadExt(c, fmt, prev, h)
  IN IF Len(c.in) - 1 < Fields(fmt) THEN Stop(c)
     ELSE IF Len(c.in) < HeaderCells(fmt, h) THEN Stop(Noted(c, csid, packet, h))
     ELSE TakeChunk(Noted(c, csid, packet, full), csid, HeaderCells(fmt, h), full)

ParseChunk(c) ==
  IF Len(c.in) <= 1 THEN Stop(c)
  ELSE IF c.in[1][1] # "basic" THEN Stop([c EXCEPT !.broken = TRUE])
  ELSE TakeHeader(c, c.in[1][2], c.in[1][3])

\* Each turn that goes on has taken a header: there are no more turns than cells.
ParseChunks(c) ==
  LET turn[n \in 0 .. Len(c.in)] ==
        IF n = 0 THEN GoOn(c)
        ELSE LET s == turn[n - 1] IN IF s.more THEN ParseChunk(s.c) ELSE s
  IN turn[Len(c.in)].c

\* Mutant of ParseMessage: what is left is noted before the messages are taken out.
LeftNotedEarly(c) ==
  LET counted == [c EXCEPT !.in_bytes = @ + Len(c.in) - c.last_left, !.last_left = Len(c.in)]
  IN ParseChunks(SendBytesRecv(counted))
CountBytes(c) == [c EXCEPT !.in_bytes = @ + (Len(c.in) - c.last_left)]
ParseMessage(c) ==
  LET parsed == ParseChunks(SendBytesRecv(CountBytes(c)))
  IN [parsed EXCEPT !.last_left = Len(parsed.in)]

\* After a handshake that ends within the bytes at hand the rest is parsed at once.
\* Mutant of ParseRest: the rest waits for the next bytes.
NoParseRest(c) == c
ParseRest(c) == IF c.st = "message" /\ c.in # <<>> THEN ParseMessage(c) ELSE c
Parse(c) ==
  CASE c.st = "handshake" -> ParseRest(HandShake(c))
    [] c.st = "message" -> ParseMessage(c)
    [] OTHER -> c

-----------------------------------------------------------------------------
(* The two ends.                                                           *)

Settled(c) == [c EXCEPT !.whole = 0]

Init ==
  /\ role \in {"play", "publish"}
  /\ good_c1 \in BOOLEAN
  /\ splits = 0
  /\ cx = [p \in Peers |-> NewContext(p)]

\* RtmpServer::OnNewConnection, RtmpClient::OnConnection.
Connect(p) ==
  /\ cx[p].hs = "init" /\ ~cx[p].closed
  /\ \E whole \in 0 .. 1 :
       cx' = [cx EXCEPT ![p] = Settled(Start([cx[p] EXCEPT !.whole = whole]))]
  /\ UNCHANGED <<role, good_c1, splits>>

\* How many of n cells one read or write moves: all of them, or fewer.
Pieces(n) == (IF splits < MaxSplits THEN 1 .. n ELSE {n}) \ {0}
Moves(k, n) == splits' = IF k < n THEN splits + 1 ELSE splits

\* TcpConnection::OnRead and OnMessage of the server or client: bytes come, in one
\* piece or another, and are parsed.
Read(p) ==
  LET wire == cx[Other(p)].wire
  IN /\ cx[p].hs # "init" /\ ~cx[p].closed /\ ~cx[p].broken
     /\ \E n \in Pieces(Len(wire)), whole \in 0 .. 2 :
          LET c == [cx[p] EXCEPT !.in = @ \o SubSeq(wire, 1, n), !.fed = @ + n, !.whole = whole]
              left == [cx[Other(p)] EXCEPT !.wire = SubSeq(wire, n + 1, Len(wire))]
          IN /\ cx[p].st # "handshake" => whole = 0
             /\ Moves(n, Len(wire))
             /\ cx' = [cx EXCEPT ![Other(p)] = left, ![p] = Settled(Parse(c))]
     /\ UNCHANGED <<role, good_c1>>

\* TcpConnection::OnWrite: a part of what is queued leaves, or all of it and the
\* context is told.
Write(p) ==
  /\ ~cx[p].closed
  /\ \E n \in Pieces(Len(cx[p].iov)), whole \in 0 .. 1 :
       LET c == [cx[p] EXCEPT !.wire = @ \o SubSeq(cx[p].iov, 1, n),
                              !.iov = SubSeq(@, n + 1, Len(@)), !.whole = whole]
       IN /\ Moves(n, Len(cx[p].iov))
          /\ (cx[p].st # "handshake" \/ c.iov # <<>>) => whole = 0
          /\ cx' = [cx EXCEPT ![p] = Settled(IF c.iov = <<>> THEN OnWriteComplete(c) ELSE c)]
  /\ UNCHANGED <<role, good_c1>>

\* The peer has closed, and all it wrote is read.
ReadEnd(p) ==
  /\ cx[Other(p)].closed /\ cx[Other(p)].wire = <<>> /\ ~cx[p].closed
  /\ cx' = [cx EXCEPT ![p].closed = TRUE]
  /\ UNCHANGED <<role, good_c1, splits>>

\* RtmpPlayerUser::PushFrame and PushFrames, and a publisher that sends its media in
\* the same way: when the context is ready, a codec header or some frames are built
\* and sent together.
HasMedia(p) ==
  \/ p = "server" /\ role = "play" /\ "OnPlay" \in cx[p].called
  \/ p = "client" /\ role = "publish" /\ "OnPublish" \in cx[p].called
Frame(csid, len) == Msg("frame", csid, IF csid = CsAudio THEN "audio" ELSE "video", len, 1, 0)
PushHeader(p) ==
  /\ HasMedia(p) /\ ~cx[p].closed /\ ~cx[p].sending /\ cx[p].frames < MaxFrames
  /\ \E csid \in {CsAudio, CsVideo} :
       /\ cx[p].prev_out[csid] = None
       /\ LET c == [cx[p] EXCEPT !.frames = @ + 1]
          IN cx' = [cx EXCEPT ![p] = Send(BuildFrame(c, Frame(csid, 1), 0))]
  /\ UNCHANGED <<role, good_c1, splits>>
PushFrames(p) ==
  /\ HasMedia(p) /\ ~cx[p].closed /\ ~cx[p].sending /\ cx[p].frames + 1 < MaxFrames
  /\ \E csid1, csid2 \in {CsAudio, CsVideo}, ts \in Timestamps :
       /\ cx[p].prev_out[csid1] # None /\ cx[p].prev_out[csid2] # None
       /\ LET c == BuildFrame([cx[p] EXCEPT !.frames = @ + 2], Frame(csid1, BigLen), ts)
          IN cx' = [cx EXCEPT ![p] = Send(BuildFrame(c, Frame(csid2, 1), ts))]
  /\ UNCHANGED <<role, good_c1, splits>>

\* The client, once it was answered, asks whether the server is there.
Asked == IF role = "play" THEN "OnPlay" ELSE "OnPublish"
Ping ==
  /\ Asked \in cx["client"].called /\ ~cx["client"].closed /\ cx["client"].pings < MaxPings
  /\ LET c == [cx["client"] EXCEPT !.pings = @ + 1]
     IN cx' = [cx EXCEPT !["client"] = PushOutQueue(c, Control("ping", "userControl", 1))]
  /\ UNCHANGED <<role, good_c1, splits>>

Next ==
  \/ \E p \in Peers : Connect(p) \/ Read(p) \/ Write(p) \/ ReadEnd(p)
                      \/ PushHeader(p) \/ PushFrames(p)
  \/ Ping

Spec == Init /\ [][Next]_vars

-----------------------------------------------------------------------------
(* Properties.                                                             *)

\* What a message is when it arrives, as it was sent.  A timestamp from ExtTs
\* on does not survive: the reader keeps the escape value, and adds the extended
\* one, in the other byte order, for every further chunk (RtmpContext.cpp:218-231, 412).
AsSent(g, s) ==
  /\ g.m = s.m /\ g.len = s.m.len /\ g.type = s.m.type /\ g.sid = s.m.sid
  /\ s.ts < ExtTs => g.ts = s.ts
  /\ s.ts >= ExtTs /\ s.m.len <= OutChunkSize => g.ts = ExtTs

\* What one end receives is what the other one sent, whole and in order, though
\* chunks are cut by a size that changes on the way and headers leave out what
\* the previous message had (BuildChunk, ParseMessage).
MessagesAsSent ==
  \A p \in Peers :
    LET sent == cx[p].sent
        got == cx[Other(p)].got
    IN /\ ~cx[p].broken
       /\ Len(got) <= Len(sent)
       /\ \A i \in 1 .. Len(got) : AsSent(got[i], sent[i])

\* A context is sending exactly while the connection has bytes of it, so that a
\* completion will come, and one that is not has nothing queued: a frame
\* never overtakes a message, and no message waits for another one to be sent
\* (Send, CheckAndSend, RtmpContext.cpp:489-507, 667-685).
SendingIsBusy ==
  \A p \in Peers :
    cx[p].st = "message" =>
      /\ cx[p].sending <=> cx[p].iov # <<>>
      /\ ~cx[p].sending => cx[p].out_queue = <<>> /\ cx[p].bufs = <<>>

\* Every byte that comes after the handshake is acknowledged once, however it is cut
\* into reads and however much of a read has to wait for the next one: what was
\* acknowledged and what is counted since make up what came (in_bytes_, last_left_,
\* RtmpContext.cpp:51, 88).  Nothing is counted in the handshake, and what has come
\* before the end of one that a write completes is counted with the next read.
BytesCountedOnce ==
  \A p \in Peers :
    LET counted == cx[p].acked + cx[p].in_bytes
    IN IF cx[p].st = "message"
       THEN counted = cx[p].fed \/ (counted = 0 /\ cx[p].fed = Len(cx[p].in))
       ELSE counted = 0

\* When all bytes are delivered, the client's request has reached the live service
\* and the answer the client, wherever reads and writes were cut; or C1 was
\* refused.  No end is left waiting for the other, with bytes in a buffer that no
\* further read will look at (Parse after the handshake, OnWriteComplete).
Quiet ==
  \A p \in Peers : /\ cx[p].hs # "init"
                   /\ cx[p].closed \/ (cx[Other(p)].wire = <<>> /\ cx[p].iov = <<>>)
RequestAnswered ==
  Quiet => \/ Asked \in cx["server"].called /\ Asked \in cx["client"].called
           \/ ~good_c1 /\ cx["server"].closed

\* The connection implements the abstract channel of messages.
Sent == [p \in Peers |-> [i \in 1 .. Len(cx[p].sent) |-> cx[p].sent[i].m]]
Received ==
  [p \in Peers |-> [i \in 1 .. Len(cx[Other(p)].got) |-> cx[Other(p)].got[i].m]]
Channel == INSTANCE MessageChannel WITH sent <- Sent, received <- Received
ChannelSpec == Channel!Spec

=============================================================================
