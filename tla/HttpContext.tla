---------------------------- MODULE HttpContext ----------------------------
(***************************************************************************)
(* One end of an HTTP connection: HttpContext.cpp and HttpParser.cpp over  *)
(* the read and write sides of TcpConnection.cpp, as HttpServer.cpp,       *)
(* HttpClient.cpp and LiveService::OnRequest use them, with the FlvContext *)
(* of an HTTP-FLV player.                                                  *)
(*                                                                         *)
(* Everything happens on the connection's loop: a handler is an operator on*)
(* the connection's record and an action applies one handler.  The byte    *)
(* stream of the other end is a sequence of cells, one per byte, cut       *)
(* anywhere into reads; a message keeps of its header what the parser      *)
(* decides by.  The socket's send buffer has a size, which makes every     *)
(* write whole, partial or refused (EAGAIN).                               *)
(***************************************************************************)
EXTENDS Integers, Sequences, FiniteSetsExt, SequencesExt

CONSTANTS
  Roles,      \* subset of {"server", "client", "poster"}
  Messages,   \* the messages the other end may send
  HeadLen,    \* bytes of a header, the closing CRLF CRLF included
  MaxBody,    \* kHttpMaxBodySize: limit of a header, size of a piece of a stream
  MaxLine,    \* limit of a line with a chunk's length (32)
  SockRoom,   \* bytes that the socket's send buffer holds
  Frames,     \* bound: frames for an HTTP-FLV player
  TsWrap,     \* timestamps of an FLV tag (2^24)
  MaxMessages,\* bound: messages of the other end
  MaxCuts,    \* bound: reads that take a part of what has come
  None

ASSUME HttpAssumption ==
  /\ HeadLen > 4 /\ MaxBody > HeadLen /\ MaxLine > 3
  /\ SockRoom > 0 /\ TsWrap > 0

VARIABLE cn     \* the connection
httpVars == <<cn>>

-----------------------------------------------------------------------------
(* The other end's bytes.                                                  *)

NoLength == -1     \* no content-length
BadLength == -2    \* one that stoull refuses

CrLf == <<<<"cr">>, <<"lf">>>>
Repeat(n, cell) == [i \in 1 .. n |-> cell]

\* The bytes of message number k.
Bytes(k, m) ==
  LET chunk(n) == <<<<"digit", n>>>> \o CrLf \o Repeat(n, <<"body", k>>) \o CrLf
      last == <<<<"digit", 0>>>> \o CrLf \o CrLf
  IN Repeat(m.head - 4, <<"head", k>>) \o CrLf \o CrLf
     \o (IF m.chunks = None THEN Repeat(m.size, <<"body", k>>)
         ELSE FlattenSeq([i \in 1 .. Len(m.chunks) |-> chunk(m.chunks[i])]) \o last)

\* MsgBuffer::FindCRLF and the search for CRLF CRLF: 0 or the place of the first.
Find(s, pattern) ==
  LET n == Len(pattern)
      at == {i \in 1 .. Len(s) - n + 1 : SubSeq(s, i, i + n - 1) = pattern}
  IN IF at = {} THEN 0 ELSE Min(at)
Consume(c, n) == [c EXCEPT !.in = SubSeq(@, n + 1, Len(@))]

-----------------------------------------------------------------------------
NewConnection(r) ==
  [role |-> r, open |-> FALSE, closed |-> FALSE, hung |-> FALSE,
   net |-> <<>>, msgs |-> <<>>, cuts |-> 0,
   \* message_buffer_ and the parser: state_, chunk_ with its capacity, req_
   in |-> <<>>, state |-> "Headers", cap |-> 0, chunk |-> None, req |-> 0,
   is_chunked |-> FALSE, is_stream |-> FALSE,
   \* post_state_, header_ and out_packet_ as the number of their last assignment
   post |-> "Init", header |-> 0, packet |-> 0, kind |-> "none", left |-> 0,
   \* io_vec_list_, each byte with the buffer it lies in; the socket
   iov |-> <<>>, room |-> SockRoom, wire |-> <<>>,
   \* FlvContext: sending_, bufs_, previous_size_; the player's header and frames
   flv |-> None, flvs |-> 0, frames |-> 0,
   \* history: deliveries, bytes posted, answers accepted, refused and completed
   got |-> <<>>, out |-> <<>>, posted |-> 0, refused |-> 0, due |-> 0, sent |-> 0, early |-> FALSE]

NewFlv == [sending |-> FALSE, bufs |-> <<>>, prev |-> 0, header_sent |-> FALSE, next |-> 1]

OnClose(c) == [c EXCEPT !.closed = TRUE]

-----------------------------------------------------------------------------
(* Posting and the write side of the connection.                           *)

\* The byte that a queued iovec points to when it is written: what lay in
\* header_ or out_packet_ is gone once those were assigned again, and what lay in
\* an FlvContext once the connection has another one.
Content(c, v) ==
  IF \/ v.buf = "header" /\ v.id # c.header
     \/ v.buf = "packet" /\ v.id # c.packet
     \/ v.buf = "flv" /\ v.id # c.flvs
  THEN <<"freed">> ELSE v.cell

Vectors(buf, id, cells, n) ==
  [i \in 1 .. Len(cells) - n |-> [buf |-> buf, id |-> id, cell |-> cells[n + i]]]

RECURSIVE WriteComplete(_), SendInLoop(_, _, _, _), OnSentNextChunk(_)

\* A refused write is not noticed, send_len being unsigned: one byte more than
\* there are is queued, from the byte before the first.
SendInLoop(c0, buf, id, cells) ==
  LET c == [c0 EXCEPT !.out = @ \o cells]
      n == IF c.room < Len(cells) THEN c.room ELSE Len(cells)
      written == [c EXCEPT !.wire = @ \o SubSeq(cells, 1, n), !.room = @ - n]
      stray == [buf |-> "static", id |-> 0, cell |-> <<"stray">>]
  IN IF c0.closed THEN c0
     ELSE IF c.iov # <<>> THEN [c EXCEPT !.iov = @ \o Vectors(buf, id, cells, 0)]
     ELSE IF n = Len(cells) THEN WriteComplete(written)
     ELSE IF n > 0 THEN [written EXCEPT !.iov = Vectors(buf, id, cells, n)]
     ELSE [c EXCEPT !.iov = <<stray>> \o Vectors(buf, id, cells, 0)]

Queued(c, buf) == \E i \in 1 .. Len(c.iov) : c.iov[i].buf = buf
SendHeader(c, state, text) ==
  LET id == c.header + 1
  IN SendInLoop([c EXCEPT !.header = id, !.post = state,
                          !.early = @ \/ Queued(c, "header")],
                "header", id, text)
SendPacket(c, state) ==
  SendInLoop([c EXCEPT !.post = state], "packet", c.packet,
             <<<<"body", c.posted, c.packet>>, <<"body", c.posted, c.packet>>>>)

Refuse(c) == [c EXCEPT !.refused = @ + 1]
Accept(c, kind) ==
  [c EXCEPT !.posted = @ + 1, !.kind = kind, !.due = IF kind = "stream" THEN @ ELSE @ + 1]
HeadText(c) == <<<<"head", c.posted, 1>>, <<"head", c.posted, 2>>>>

\* PostRequest of a text, of a header and a packet, PostChunkHeader and
\* PostStreamHeader, which stay in kHttpContextPostInit.
\* Mutant: the state of an answer in progress is not looked at.
PostAlways(c0, kind) ==
  LET c == Accept(c0, kind)
  IN CASE kind = "text" -> SendHeader(c, "Http", HeadText(c))
       [] kind = "packet" -> SendHeader([c EXCEPT !.packet = @ + 1], "HttpHeader", HeadText(c))
       [] kind \in {"chunks", "stream"} ->
            SendHeader([c EXCEPT !.left = 2], "Init", HeadText(c))
PostRequest(c, kind) == IF c.post # "Init" THEN Refuse(c) ELSE PostAlways(c, kind)

PostChunk(c0) ==
  LET c == [c0 EXCEPT !.packet = @ + 1, !.left = @ - 1]
  IN SendHeader(c, "ChunkLen", <<<<"len", c.posted, c.packet>>>>)
PostEofChunk(c) ==
  SendInLoop([c EXCEPT !.post = "ChunkEOF", !.kind = "eof"], "static", 0, <<<<"eof", c.posted>>>>)
PostStreamChunk(c) ==
  IF c.post # "Init" THEN Refuse(c)
  ELSE SendPacket([c EXCEPT !.packet = @ + 1, !.left = @ - 1], "HttpStreamChunk")

\* A handler that has an answer in chunks or as a stream posts the next piece when
\* the last one is sent, and the end of the chunks.
OnSentNextChunk(c) ==
  CASE c.kind = "chunks" /\ c.left > 0 -> PostChunk(c)
    [] c.kind = "chunks" /\ c.left = 0 -> PostEofChunk(c)
    [] c.kind = "stream" /\ c.left > 0 -> PostStreamChunk(c)
    [] OTHER -> c

OnSent(c) == [c EXCEPT !.post = "Init", !.sent = @ + 1]

\* Mutant: the state after a packet's header is left as it was.
HttpHeaderStays(c) ==
  IF c.post = "HttpHeader" THEN SendPacket(c, "HttpHeader") ELSE c
HttpWriteComplete(c) ==
  CASE c.post = "Init" -> c
    [] c.post \in {"Http", "HttpBody", "ChunkEOF"} -> OnSent(c)
    [] c.post = "HttpHeader" -> SendPacket(c, "HttpBody")
    [] c.post = "ChunkLen" -> SendPacket(c, "ChunkBody")
    [] c.post \in {"ChunkBody", "HttpStreamChunk"} ->
         OnSentNextChunk([c EXCEPT !.post = "Init"])

(* FlvContext, and the part of FlvPlayerUser::PostFrames that drives it.   *)

FrameSize(i) == 10 + i
FlvTag(f, i) == <<<<"tag", f.prev, i % TsWrap, i>>, <<"frame", i>>>>

BuildFlvFrame(f, i) ==
  [f EXCEPT !.bufs = @ \o FlvTag(f, i), !.prev = FrameSize(i) + 11]

\* TcpConnection::SendInLoop(list): queued, never written at once.
FlvSend(c, f) ==
  IF f.sending THEN [c EXCEPT !.flv = f]
  ELSE [c EXCEPT !.flv = [f EXCEPT !.sending = TRUE],
                 !.out = IF c.closed THEN @ ELSE @ \o f.bufs,
                 !.iov = IF c.closed THEN @ ELSE @ \o Vectors("flv", c.flvs, f.bufs, 0)]

SendFlvHttpHeader(c) ==
  FlvSend(c, [c.flv EXCEPT !.bufs = <<<<"http">>, <<"flv">>>>, !.header_sent = TRUE])

PushFrames(c) ==
  LET f == FoldLeft(BuildFlvFrame, c.flv, [k \in 1 .. c.frames - c.flv.next + 1 |-> c.flv.next + k - 1])
  IN FlvSend(c, [f EXCEPT !.next = c.frames + 1])

PostFrames(c) ==
  IF c.frames = 0 \/ c.flv.sending THEN c
  ELSE IF ~c.flv.header_sent THEN SendFlvHttpHeader(c)
  ELSE IF c.flv.next <= c.frames THEN PushFrames(c) ELSE c

FlvWriteComplete(c) ==
  IF c.flv = None THEN c
  ELSE PostFrames([c EXCEPT !.flv.sending = FALSE, !.flv.bufs = <<>>])

\* HttpServer::OnWriteComplete.
WriteComplete(c) == FlvWriteComplete(HttpWriteComplete(c))

\* TcpConnection::OnWrite, which takes what the socket has room for.
OnWrite(c) ==
  LET n == IF c.room < Len(c.iov) THEN c.room ELSE Len(c.iov)
      left == [c EXCEPT !.wire = @ \o [i \in 1 .. n |-> Content(c, c.iov[i])],
                        !.iov = SubSeq(@, n + 1, Len(@)), !.room = @ - n]
  IN IF left.iov = <<>> THEN WriteComplete(left) ELSE left

-----------------------------------------------------------------------------
(* The parser.                                                             *)

ClearForNext(c) ==
  CASE c.state = "HttpComplete" -> [c EXCEPT !.state = "Headers", !.req = 0, !.chunk = None]
    [] c.state = "ChunkComplete" ->
         [c EXCEPT !.chunk = None,
                   !.state = IF c.is_chunked THEN "ChunkLen"
                             ELSE IF c.is_stream THEN "StreamBody" ELSE "Headers"]
    [] OTHER -> c

\* ParseHeaders and ProcessMethodLine for message k; is_chunked_ and is_stream_ are
\* never taken back.
ParseHeaders(c, k) ==
  LET m == c.msgs[k]
      none == IF m.request THEN m.get ELSE m.code # 200
      h == [c EXCEPT !.req = k]
  IN CASE m.length = BadLength -> [h EXCEPT !.state = "Error"]
       [] m.length = 0 -> [h EXCEPT !.state = "HttpComplete"]
       [] m.length > 0 -> [h EXCEPT !.state = "NormalBody", !.cap = m.length]
       [] m.length = NoLength /\ m.chunks # None ->
            [h EXCEPT !.state = "ChunkLen", !.is_chunked = TRUE]
       [] m.length = NoLength /\ m.chunks = None /\ none -> [h EXCEPT !.state = "HttpComplete"]
       [] m.length = NoLength /\ m.chunks = None /\ ~none ->
            [h EXCEPT !.state = "StreamBody", !.is_stream = TRUE]

\* A return value other than the state is kContinue.
HeaderBlock(c) ==
  LET end == Find(c.in, CrLf \o CrLf)
  IN IF Len(c.in) > 4 /\ end > 0
     THEN ParseHeaders(Consume(c, end + 3), c.in[1][2])
     ELSE IF Len(c.in) > MaxBody THEN [c EXCEPT !.state = "Error"] ELSE c

\* ParseNormalBody, ParseStream and ParseChunk: what there is, up to the
\* packet's capacity.
\* Mutant: a full packet is noticed with the next byte only.
FillLate(c, cap, full) ==
  LET have == IF c.chunk = None THEN 0 ELSE c.chunk
      n == IF Len(c.in) < cap - have THEN Len(c.in) ELSE cap - have
      took == [Consume(c, n) EXCEPT !.chunk = have + n]
  IN IF have = cap /\ n > 0 THEN [took EXCEPT !.state = full] ELSE took
Fill(c, cap, full) ==
  LET have == IF c.chunk = None THEN 0 ELSE c.chunk
      n == IF Len(c.in) < cap - have THEN Len(c.in) ELSE cap - have
      took == [Consume(c, n) EXCEPT !.chunk = have + n]
  IN IF have + n = cap THEN [took EXCEPT !.state = full] ELSE took

\* The length of a chunk: what strtol reads, 0 where no digit is.  The limit of 1 MB
\* sets an error that the next assignment overwrites.
ChunkLen(c) ==
  LET end == Find(c.in, CrLf)
      n == IF c.in[1][1] = "digit" THEN c.in[1][2] ELSE 0
      rest == Consume(c, end + 1)
  IN CASE end = 0 /\ Len(c.in) > MaxLine -> [c EXCEPT !.in = <<>>, !.state = "Error"]
       [] end = 0 /\ Len(c.in) <= MaxLine -> c
       [] end > 0 /\ n = 0 -> [rest EXCEPT !.state = "LastEmptyChunk"]
       [] end > 0 /\ n > 0 -> [rest EXCEPT !.state = "ChunkBody", !.cap = n + 2]

\* A chunk's packet takes its CRLF as well, which is then cut off.
\* Mutant: it is not.
ChunkWithCrLf(c) == Fill(c, c.cap, "ChunkComplete")
ChunkBody(c) ==
  LET took == Fill(c, c.cap, "ChunkComplete")
  IN IF took.state = "ChunkComplete" THEN [took EXCEPT !.chunk = @ - 2] ELSE took

LastEmptyChunk(c) ==
  LET end == Find(c.in, CrLf)
  IN IF end = 0 THEN c
     ELSE [Consume(c, end + 1) EXCEPT !.chunk = None, !.state = "ChunkComplete"]

\* HttpParser::Parse.
ParseStep(c0) ==
  LET c == ClearForNext(c0)
  IN CASE c.state = "Headers" -> HeaderBlock(c)
       [] c.state = "NormalBody" -> Fill(c, c.cap, "HttpComplete")
       [] c.state = "StreamBody" -> Fill(c, MaxBody, "ChunkComplete")
       [] c.state = "ChunkLen" -> ChunkLen(c)
       [] c.state = "ChunkBody" -> ChunkBody(c)
       [] c.state = "LastEmptyChunk" -> LastEmptyChunk(c)
       [] c.state = "Error" -> c

\* LiveService::OnRequest by the kind of answer; a fragment that has left the window
\* gets none.  A handler with an answer in pieces posts the first one after
\* the header.
NewFlvContext(c) ==
  [c EXCEPT !.flv = NewFlv, !.flvs = @ + 1, !.early = @ \/ Queued(c, "flv")]
Answer(c, ask) ==
  CASE ask \in {"text", "packet"} -> PostRequest(c, ask)
    [] ask \in {"chunks", "stream"} ->
         IF c.post # "Init" THEN Refuse(c) ELSE OnSentNextChunk(PostRequest(c, ask))
    [] ask = "flv" -> PostFrames(NewFlvContext(c))
    [] ask = "gone" -> c
OnRequest(c0) ==
  LET c == [c0 EXCEPT !.got = Append(@, <<c0.req, c0.chunk>>)]
  IN IF c.msgs[c.req].request THEN Answer(c, c.msgs[c.req].ask) ELSE c

\* HttpContext::Parse: the loop goes on while there is more than a byte, whatever the
\* parser says.  When a round changes nothing, no round will.
RECURSIVE Parse(_)
Parse(c) ==
  LET p == ParseStep(c)
      after == CASE p.state \in {"HttpComplete", "ChunkComplete"} -> OnRequest(p)
                 [] p.state = "Error" -> OnClose(p)
                 [] OTHER -> p
  IN IF Len(c.in) <= 1 THEN c
     ELSE IF after = c THEN [c EXCEPT !.hung = TRUE] ELSE Parse(after)

-----------------------------------------------------------------------------
(* Steps.                                                                  *)

HttpInit == \E r \in Roles : cn = NewConnection(r)

Running == cn.open /\ ~cn.closed /\ ~cn.hung

\* HttpServer::OnNewConnection; HttpClient::OnConnection posts the request.
Connect ==
  /\ ~cn.open
  /\ LET c == [cn EXCEPT !.open = TRUE]
     IN cn' = CASE c.role = "server" -> c
                [] c.role = "client" -> PostRequest(c, "text")
                [] c.role = "poster" -> PostRequest(c, "packet")

\* The other end sends a request, or a response to a client.
PeerSends ==
  /\ cn.open /\ Len(cn.msgs) < MaxMessages
  /\ \E m \in Messages :
       /\ m.request <=> cn.role = "server"
       /\ cn' = [cn EXCEPT !.msgs = Append(@, m), !.net = @ \o Bytes(Len(cn.msgs) + 1, m)]

\* OnRead, HttpServer::OnMessage.
Read ==
  /\ Running /\ cn.net # <<>>
  /\ \E n \in 1 .. Len(cn.net) :
       /\ n < Len(cn.net) => cn.cuts < MaxCuts
       /\ cn' = Parse([cn EXCEPT !.in = @ \o SubSeq(cn.net, 1, n),
                                 !.net = SubSeq(@, n + 1, Len(@)),
                                 !.cuts = IF n < Len(cn.net) THEN @ + 1 ELSE @])

ReadEnd == Running /\ cn.net = <<>> /\ cn' = OnClose(cn)

Write == Running /\ cn.iov # <<>> /\ cn.room > 0 /\ cn' = OnWrite(cn)
WriteError == Running /\ cn.iov # <<>> /\ cn' = OnClose(cn)

\* The other end takes what the socket holds.
Drain == cn.open /\ cn.room < SockRoom /\ cn' = [cn EXCEPT !.room = SockRoom]

\* A frame for the HTTP-FLV player, whose user becomes active.
NewFrame ==
  /\ Running /\ cn.flv # None /\ cn.frames < Frames
  /\ cn' = PostFrames([cn EXCEPT !.frames = @ + 1])

HttpNext == Connect \/ PeerSends \/ Read \/ ReadEnd \/ Write \/ WriteError \/ Drain \/ NewFrame

HttpSpec == HttpInit /\ [][HttpNext]_httpVars

-----------------------------------------------------------------------------
(* Properties.                                                             *)

\* What the handler is to be given of message number k.
Deliveries(k, m) ==
  CASE m.length > 0 -> <<<<k, m.length>>>>
    [] m.length = BadLength -> <<>>
    [] m.length \in {0, NoLength} /\ m.chunks # None ->
         [i \in 1 .. Len(m.chunks) |-> <<k, m.chunks[i]>>] \o <<<<k, None>>>>
    [] m.length \in {0, NoLength} /\ m.chunks = None ->
         IF m.size = 0 THEN <<<<k, None>>>> ELSE Repeat(m.size \div MaxBody, <<k, MaxBody>>)

\* The first message after which the parser finds no further header.
Endless == {k \in 1 .. Len(cn.msgs) :
              LET m == cn.msgs[k] IN m.length = BadLength \/ m.chunks # None \/ m.size # Max({0, m.length})}
LastMessage == IF Endless = {} THEN Len(cn.msgs) ELSE Min(Endless)
Expected == FlattenSeq([k \in 1 .. LastMessage |-> Deliveries(k, cn.msgs[k])])

\* However the bytes are cut into reads, the handler is given the messages as they
\* were sent, each body and chunk whole, and all of them when all bytes were read
\* (but for a last byte that came alone, HttpContext.cpp:17).  A message in
\* chunks or without a length is the last one: what follows it is taken for
\* more of it (is_chunked_, is_stream_, ClearForNextChunk).
RequestsAsSent ==
  /\ \/ IsPrefix(cn.got, Expected)
     \/ /\ IsPrefix(Expected, cn.got)
        /\ \A i \in Len(Expected) + 1 .. Len(cn.got) : Endless # {} /\ cn.got[i][1] = LastMessage
  /\ Running /\ cn.net = <<>> => Len(cn.got) >= Len(Expected) \/ Len(cn.in) = 1

\* The loop of HttpContext::Parse ends, unless a read was cut within a header or a
\* chunk's length, the parser met an error with bytes left, or something follows a
\* message in chunks: then the thread spins and serves no connection any more.
ParseReturns ==
  cn.hung => \/ cn.cuts > 0 /\ cn.state \in {"Headers", "ChunkLen", "LastEmptyChunk"}
             \/ cn.closed /\ cn.state = "Error"
             \/ LastMessage < Len(cn.msgs)

\* Each FLV tag names the size of the one before it.
FlvChain ==
  LET tags == SelectSeq(cn.wire, LAMBDA cell : cell[1] = "tag")
  IN \A i \in 1 .. Len(tags) :
       tags[i][2] = IF tags[i][4] = 1 THEN 0 ELSE FrameSize(tags[i - 1][4]) + 11

\* What leaves the socket is what was posted, whole and in order, a byte before a
\* refused write aside: no iovec outlives its buffer, except those of a chunked
\* answer's header, which the first chunk's length overwrites when the socket
\* did not take it (PostChunkHeader, PostChunk, HttpContext.cpp:84, 103), and of a
\* player that asks again (LiveService.cpp:276).  The
\* tags of an FLV answer are chained.
Left == SelectSeq(cn.wire, LAMBDA cell : cell # <<"stray">>)
AnswersWhole ==
  /\ cn.early \/ IsPrefix(Left, cn.out)
  /\ Running /\ cn.iov = <<>> => Len(Left) = Len(cn.out)
  /\ FlvChain

\* When nothing is queued the context is ready for the next answer, and every answer
\* was reported to the handler once, though completions come from within
\* Send as well as from OnWrite; the FLV context is ready, too.
AnswersComplete ==
  Running /\ cn.iov = <<>> =>
    /\ cn.post = "Init" /\ cn.sent = cn.due
    /\ cn.flv # None => ~cn.flv.sending /\ (cn.frames > 0 => cn.flv.next = cn.frames + 1)

\* "如果是临时错误，已发送字节数设为 0" (TcpConnection.cpp:345): after a temporary error
\* nothing counts as sent, so all that is posted is sent, and nothing else.
NothingStray == \A i \in 1 .. Len(cn.wire) : cn.wire[i] # <<"stray">>

=============================================================================
