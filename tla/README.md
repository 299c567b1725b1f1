# A TLA+ verification of the tmms live-streaming server

The repository is a C++ live-streaming server: publishers push RTMP, players
receive RTMP, HTTP-FLV, HLS or WebRTC, and a stream that nobody publishes is pulled
from another server. It is multi-threaded (a pool of epoll event loops, a main
thread with periodic tasks), and most of what can go wrong lies between threads, or
in the order of callbacks within one. This directory holds TLA+ modules of the parts
that carry the server's logic, the TLC configurations that check them, and proofs
that TLAPS checks. `PROJECT.json` relates every definition to the lines it models,
every property to a run and to a mutant of the code that breaks it, and lists
the hazards of the code that the properties are for.

Paths below are relative to `src/src/`.

## 1. Inventory

| Component | State | Operations | Hard behaviour | What makes it correct |
|---|---|---|---|---|
| Stream (`live/Stream.cpp`, `live/base/`) | ring of packets, index, GOP list, codec headers, ready flag, `lock_` | `AddPacket`, `GetFrames` (`LocateGop`, `SkipFrame`, `GetNextFrame`) | ring overwritten under slow readers; GOPs that outlive their key frame; header timestamps of 0 | every player gets an increasing subsequence, starts at a key frame, sees gaps only where the code skips, and has a decoder configuration |
| Players (`live/user/*PlayerUser.cpp`, `network/net/Connection.cpp`) | cursor, fetched batch, pending headers, `active_`, `sending_` | `PostFrames`, `Active`, `Deactive`, write completion | wake-up lost between "nothing to send" and `Deactive`; push refused by a busy context | what is fetched is sent; who is woken catches up |
| Sessions (`live/LiveService.cpp`, `live/Session.cpp`, `live/user/User.cpp`) | registry by name, publisher, players, `destroyed_` of users, two locks | `OnPublish`, `OnPlay`, `OnRequest`, `OnRecv`, `SetPublisher`, `AddPlayer`, `CloseUser`, `Clear`, `CloseSession`, `OnTimer` | close from foreign threads, close inline under locks, entry into a cleared session, several requests on one connection | nobody served is forgotten, nobody gone is kept, silent sessions end |
| Timing wheel (`network/net/TimingWheel.cpp`) and idle timeout (`TcpConnection`) | four wheels of slots, tick | `InsertEntry`, `OnTimer`, `PopUp`, `RunAfter`, `RunEvery`, `ExtendLife` | one entry in several slots; remainders; boundaries of the wheels | entries fire on their tick; an open connection is always timed |
| Event loop (`network/net/EventLoop.cpp`, `EventLoopThread.cpp`, `PipeEvent.cpp`) | `looping_`, queue of tasks, `lock_`, pipe | `Run`, `Loop`, `RunInLoop`, `WakeUp`, `RunFunctions`, `Quit`, destructor | wake-up against sleep, edge-triggered epoll, full pipe, tasks run under the lock, quit against start | tasks run once each; the loop ends when told to |
| HLS (`mmedia/hls/`) and its HTTP side | current fragment, window, free list, playlist | `OnPacket`, `AppendFragment`, `Shrink`, `UpdatePlayList`, `GetFragmentByName`, two-part answer | objects recycled while clients hold them; references past the lock; names by the millisecond | the playlist lists what is there and only advances; a client gets what it asked for |
| TCP (`TcpConnection`, `TcpServer`, `TcpClient`) | write queue, closed flag, idle entry, context | `Send`, `OnRead`, `OnWrite`, `OnClose`, `ForceClose`, connect | partial and refused writes, buffers owned by others, completion from within `Send` | bytes in order; one completion per send |
| RTMP (`mmedia/rtmp/`) | handshake state, chunk streams in and out, send queue, `sending_` | `Parse`, `HandleXxx`, `BuildChunk`, `Send`, `CheckAndSend`, `OnWriteComplete` | messages interleaved in chunks, chunk-size changes, header compression against the previous message, bytes of the first message behind the handshake | what one side builds the other parses; every request is answered; nothing is left in the queue |
| HTTP (`mmedia/http/`) | parser state, posting state, FLV context | `Parse`, `PostRequest`, `PostChunk`, `PostStreamChunk`, `WriteComplete` | pipelined requests, headers cut by a read, posting while busy | each request once; each answer whole and completed once |
| Pull relay (`live/relay/`, `RtmpClient`, `TcpClient`) | targets with retry counts, puller, its client and loop | `StartPullStream`, `SelectTarget`, `Pull`, `OnPullClose` | raw pointers in timers and callbacks, a client deleted in its own close callback; targets shared, without a lock, by all streams of an application | no deleted object is called; retries end; a waiting player is not left alone |
| WebRTC (`live/WebrtcService.cpp`, `live/user/WebrtcPlayerUser.cpp`, `mmedia/webrtc/`, `UdpSocket`) | users by name and by address, DTLS state, muxer, send lists, cache for retransmission | `OnRequest`, `OnStun`, `OnDtls`, `OnRtcp`, `Push2Players`, `SendPacket`, `WriteComplete` | lists shared by the socket's loop and the publishers', callback with nothing sent, 32-bit index against 16 bits | packets leave whole, once and in order; a lost packet in the cache is sent again |
| MPEG-TS (`mmedia/mpegts/`), RTP (`mmedia/rtp/`), demuxers (`mmedia/demux/`) | continuity counters, parameter sets, sequence number | `WriteVideoPes`, `WriteAudioPes`, `WritePatPmt`, `EncodeAvc`, `RtpH264::Encode` | sizes at the limit of a packet; state that outlives a fragment | a fragment plays by itself; a receiver puts units together again |
| Time correction (`live/base/TimeCorrector.cpp`) | last original and corrected timestamps | `CorrectTimestamp` | sound placed by the picture and by itself in turn; jumps | one continuous time line, sound and picture together |
| AMF (`mmedia/rtmp/amf/`) | none between calls | `Decode`, encoders, `Property` | lengths of what is left; nested objects | what was encoded is decoded |
| Byte buffer (`network/base/MsgBuffer`) | vector, head, tail, capacity | `Append`, `AddInFront`, `ReadFd`, `Retrieve`, `Unwrite` | room made by moving, growing, or before the head | a queue of bytes |
| Others (`base/`, DNS, task manager, loop pool, `main/`) | configuration, logs, caches | parsing and formatting | | |

How they interact: a TCP connection on an event loop hands bytes to an RTMP or
HTTP context, which calls `LiveService` (`OnPublish`, `OnPlay`, `OnRecv`,
`OnRequest`). That finds or creates the `Session` and puts a `User` into it and
into the connection's context. The publisher's loop calls `Stream::AddPacket`,
which fills the ring, feeds the HLS muxer, pushes to the WebRTC players, and wakes
the others (`Session::ActiveAllPlayers`, `Connection::Active`) through `RunInLoop` on
their own loops. A player's loop then copies packets out of the ring and posts them;
a completed write calls back and the player looks for more. A player that finds no
publisher starts the relay, whose client publishes in turn. The main thread calls
`LiveService::OnTimer`, which closes sessions without data or players; closing
goes through `TcpConnection::ForceClose`, as a task of the connection's loop. The
timing wheel of each loop closes connections that are idle. WebRTC has one UDP
socket on a loop of its own, which publishers' threads send through.

## 2. Modules

| Module | Models | Runs |
|---|---|---|
| `LiveStream` | the stream's ring, GOPs and headers, RTMP and HTTP-FLV players, their wake-up | `stream_ring`, `stream_wake` |
| `PacketFeed` | abstract: what a stream promises its players | refined by `LiveStream` |
| `TimingWheel` | wheels, timers, idle timeouts | `wheel_fires`, `wheel_hours` |
| `LiveSession` | registry, sessions, users, closing | `session` |
| `EventLoop` | loop, thread, tasks, pipe | `loop_tasks` |
| `HlsWindow` | muxer, window, playlist, two-part answers | `hls_window` |
| `RtmpContext` | both ends of an RTMP connection | `rtmp` |
| `MessageChannel` | abstract: messages once and in order | refined by `RtmpContext` |
| `HttpContext` | an HTTP connection, server or client, over a `TcpConnection`, with an FLV player | `codecs`, `tcp_eagain` |
| `PullRelay` | relay, pullers, clients, targets, with the part of a session that starts them | `relay` |
| `WebrtcService` | offer, STUN, DTLS, media, retransmission, the socket | `webrtc` |
| `MediaDemux`, `TsMuxer`, `RtpMuxer` | demuxers and multiplexers | `codecs` |
| `TimeCorrector`, `AmfCodec`, `MsgBuffer` | the other sequential parts | `codecs` |
| `ByteQueue` | abstract: a queue of bytes | refined by `MsgBuffer` |
| `Codecs` | composes what runs on one loop by itself (the multiplexers, `TimeCorrector`, `AmfCodec`, `MsgBuffer`, `HttpContext`); a behaviour exercises one of them (`job`) | `codecs` |
| `LiveStream_proofs`, `TimingWheel_proofs`, `LiveSession_proofs`, `EventLoop_proofs`, `HlsWindow_proofs`, `PullRelay_proofs`, `WebrtcService_proofs`, `Sequential_proofs` (of `TimeCorrector`, `MsgBuffer` and `RtmpContext`) | proofs | |

Each `MC...` module extends its component and declares model values.

**LiveStream.** The state is that of `Stream`, one `PlayerUser` and one
connection per player, with `pc` for the place in `PostFrames` and `GetFrames`.
A critical section under `lock_` is one action, but for the copying of frames,
which is one action per frame with `lock` held, so that `RingLocked` is a
statement about the code and not about the model's grain. Players in `Local` are
on the publisher's loop: their task runs inline and the two never overlap.
Packets are reduced to their kind, index and corrected timestamp; a video
sequence header is a key frame (its frame-type nibble is 1) and codec headers
have timestamp 0, both as in the code. `sending` is `sending_` of the RTMP or FLV
context; the RTMP player may join while the reply to its `play` is in flight.
History variables (`last_sent`, `decoder`, `lost`) record what was sent.

**TimingWheel.** A slot is a set of references to entries; an entry fires when
the last reference goes, as the destructor of the `shared_ptr`'s target does. An
element with a `rest` is the `CallbackEntry` that inserts the entry again.
`broken` is set when the code indexes outside a wheel, which is undefined; nothing
follows. The wheels' sizes are CONSTANTS.

**LiveSession.** One stream name. A thread's `pc` is its place in a call,
`leaving` the user whose `CloseUser` waits for the session's lock. The exchange
on `destroyed_` is an action's first step; a close from a foreign thread is a
task (`closing`), one on the thread itself is inline, under whatever locks are
held. `silent` and `idle_long` are the two clocks of `IsTimeout`. No pull target
is configured, as by default, so that a player without a publisher closes the
session; `PullRelay` has the other case.

**EventLoop.** The owner's thread (`Run`, destructor) and the loop's thread are
separate processes. The pipe counts unread writes and `edge` is an event that
epoll has not reported; each report reads one write. A task may forward a task to
another loop under that loop's `lock_`.

**HlsWindow.** Fragment objects are identities with contents that `Reset` and
`Encode` change; readers hold an identity, so that recycling shows. A reference
into the vector is a position, spoiled when the vector moves; what is read
through it then is any choice.

**RtmpContext.** All that happens at one end happens on its loop, so a handler is an
operator from context record to context record, with every call it makes composed into
it, and an action applies one handler to one end. The stream of bytes is a sequence of
cells, one per header field and one per unit of body, and a read or a write may end
after any of them. Chunk headers are built against the previous message of the chunk
stream (fmt 0 to 3) and parsed against the reader's own copy. The repository's client
does nothing in `WaitS0S1` and `WaitS2` (`RtmpHandShake.cpp:357`), so its own client
never completes a handshake; the client of the model is another implementation's up to
that point and `RtmpContext`'s from there on. Whether C1 has a valid digest is one
Boolean. The live service is the set of callbacks it was given (`called`). `fed` is a
history variable: a read adds to it what it delivers, whatever the parser counts. Chunk
stream ids are the five of `RtmpCSID`; those of 64 and more, which take a basic header
of two or three bytes, and the 4096 bytes that all chunk headers of one batch share
(`RtmpContext.cpp:447-451`, `624-628`) are not modelled.

**HttpContext.** One end and the byte stream it gets; a message keeps of its header
what the parser decides by (method, `Content-Length`, `Transfer-Encoding`, and whether
the code hands it on). The roles are a server, a client, and a client that posts.
The write side is `TcpConnection`'s: `SendInLoop` for a buffer and for a list,
`OnWrite` with vectors into buffers the context owns, into a socket of `SockRoom`
bytes, so that every write is whole, partial or refused. `cn.iov` refers to buffers
by name and version: `cn.early` says that one was overwritten while queued.
`cn.hung` is a parser loop that does not end. `PostChunk` and `PostStreamChunk` have a
branch for a header that was not sent yet (`HttpContext.cpp:92-97`, `130-135`) with
completions of its own (`171-176`, `195-200`); the server's answers and the model post the
header first, so the model has neither.

**PullRelay.** Relays, pullers and clients are raw pointers in the code. The model
keeps every object that was ever made, with whether it was deleted; what is called and is
gone sets `w.bad` and nothing follows. No lock is taken, and the targets of an
application are the same objects for the relays of all loops, so a call of
`PullerRelay::Pull` (`w.call[loop]`) is in steps: it ends a step when it has tested a
target's retries (`Count` is then the `++`, a load and a store, either of which may come
before another loop's) or its name (`Name` is then the write), and `Go` is the rest. A
loop is in one handler at a time (`Idle`). `raced` is a history variable, the targets on
which two loops met within a call.
An attempt that fails calls `OnPullClose` from within `TcpClient::OnClose`, which has
already taken the connection out of the loop. If the relay answers by deleting the puller
(the next target, or none left) or its client (a retry at once), the last reference to
the `TcpClient` goes while `TcpConnection::OnClose` has still to call `Event::Close` on
it: the client is `gone`, and the end of the call (`Ended`) may go well or not. A client
that was ever connected is kept by its own context, which refers to the connection, and
never goes. `Playing` needs a handshake that completes, which the
repository's client never gets to (see `RtmpContext`); the model has it as what another
build or a later version may do, and assumes it nowhere.
Three simplifications: the fields of one relay are read and written within one step; a call
reads `current_target_` once; and an attempt that fails at once, within `Connect`, fails in
a later step.

**WebrtcService.** Three kinds of threads: the HTTP loop that answers the offer, the
socket's loop, and publishers' loops that push one frame at a time under
`users_lock_`. A packet handed to `SendPacket` is its position in `handed`, so that
two equal datagrams stay apart; `srv` has the lists of `WebrtcServer` and of
`UdpSocket`. DTLS is its two flights, either of which may be repeated. Where a player
starts is any key frame of the stream so far: `LiveStream` says which one.

**Codecs.** `TsMuxer` keeps of a TS packet its PID, counter, flags and pieces of
payload as lengths; `RtpMuxer` an RTP packet's form, range and marker. Both take the
packets that `MediaDemux` describes; a receiver written from the formats (not
from the code) reads what comes out. `TsHeader` is what `pid_ >> 8` with the start flag
makes of the 16 bits of a PID: the MP3 encoder's `0xe000` (`AudioEncoder.h:29`) goes out as
PID 0, the tables' own, marked as damaged. `MediaDemux` keeps the format that
`DecodeAvcNalu` settles on with the first frame, and the start codes that it finds in one
whose lengths do not fit; a publisher that sends start codes itself (Annex B), against
what FLV says, is not modelled. `AmfCodec` decodes real byte sequences, numbers
being reduced to a whole part and whether there is a fraction. `MsgBuffer` is the
vector itself.

## 3. Runs and their bounds

* `stream_ring` (3 million states): one player, a ring of two slots, five packets
  (audio and video sequence headers and key frames with two timestamps; the audio
  header is the packet that is no key frame), batches that end at the head of the
  stream. Each slot is overwritten, one of them twice, so that a reader can be
  overrun, skip, be located late, and meet the first GOP at the packet that
  overwrites it; codec headers change under it. Batches that end at their limit are
  the next run's.
* `stream_wake` (liveness): two players, one of them on the publisher's loop and one
  over HTTP-FLV, three packets, batches of one. `PlayersServed` says that what was
  fetched goes out, and that a player whose task is queued is sent all that was
  published by then. It does *not* say that each packet wakes a player: beyond
  `NotifyAlways` packets, and between the last `GetFrames` and `Deactive`, one may
  wait for the next packet that does.
* `wheel_fires` (1.5 million): a timer, a ticker and a connection; wheels of 3, 6 and
  12 ticks for a minute, an hour and a day; delays in the second wheel, of whole and
  broken minutes, and beyond the day wheel; seven units of time. `FiresOnTime` is
  exact; `MinuteWheelInTime` bounds those of minutes and states where they fail.
* `wheel_hours`: the violation described below.
* `session` (665 000, safety and liveness): three clients, two of them on one loop, one
  over HTTP, one that may ask twice, two sessions. Each exception in the properties
  (`dropped`, `late`, `Replaced`, a relock after a second request) is reached: they
  describe what the code does, and where it is weaker than one would wish.
* `loop_tasks`: two loops that forward to each other, three tasks, pipes of two
  writes, so that a pipe fills, both loops block on each other, and loops are
  destroyed at any moment.
* `hls_window`: one client, a window of two, five fragments of at most two packets
  with timestamps that may go back, and a clock that may stand still between two
  fragments.
* `rtmp` (446 000): a player and a publisher, up to three frames, messages of one and of
  several chunks in both directions under a chunk size that changes, timestamps on both
  sides of the extended form, an acknowledgement window that is passed, a ping, batches
  of two, and two cuts of reads or writes anywhere in the connection.
* `tcp_eagain`: the violation described below.
* `relay` (930 000, safety and liveness): two players on two loops, each next loop any
  of the two. Both ask for one stream, or for two streams of an application whose one target
  is tried twice with an interval, or one player asks for a stream with two targets, the
  second of which is tried once. So two loops meet on a target, in one relay or in two; a
  client is deleted in its own close callback; and a session ends under every kind of
  pending step.
* `webrtc` (649 000, safety and liveness): one user that may change its address, a
  stream of three frames of which the middle one is a B-frame, five datagrams in, a cache of
  two packets, three sequence numbers (so that numbers wrap), one receiver's report.
* `codecs` (530 000): real sizes (188 and 1400 bytes, 100 ms), with frame sizes on both
  sides of every limit; five packets to a multiplexer, six to the time correction, three
  values to a message and each truncation of its last one (not within an object or an
  array), four unread bytes in a buffer that starts with two. Its HTTP part has two
  messages of fourteen kinds one after the other (GET, POST with a body, in chunks and
  as a stream, a wrong length, a header that is too long, answers), three cuts, and a
  socket of three bytes, so that every answer meets partial and refused writes.

The bounds are named CONSTANTS in the actions' guards. They are chosen so that each
queue, window, ring or wheel is filled, overflows and is used again. Deadlock is not
checked: with a bounded input every run comes to rest, and the deadlocks of the
code (a lock taken twice, two loops that wait for each other) are named in
`RelockNeedsSecondRequest` and `TaskRuns`.

**Fairness.** Weak fairness of what a thread does once it is in a call, of
queued tasks, of write completion (the peer reads) and of `OnTimer` (the main
thread calls it for ever). Nothing is assumed of publishers, clients, packets or
closing peers. In `EventLoop` fairness is strong where a thread waits for a
mutex, as a lock that is free again and again is obtained in the end; `epoll_wait`
returns within a second, whether or not it was woken. `PullRelay` assumes that each
loop goes on with its calls, tasks and timers and that the system ends every attempt to
connect; of a connected server it assumes nothing, as no timeout watches a client;
`WebrtcService` that the socket's loop runs its tasks, and, strongly, that a socket which
is writable again and again is written to (the loop does other work in between).

### What the checks show about the code

Two statements of the code's own comments are refuted (`findings` in `PROJECT.json`):

* `tcp_eagain`: a write that the socket refuses is not "0 bytes sent". `send_len` is
  unsigned (`TcpConnection.cpp:217`), so a refused write puts one byte that nobody posted on
  the wire.
* `wheel_hours`: the hour wheel is not turned "once an hour", nor the day wheel "once a
  day" (`TimingWheel.cpp:103`, `105`), and a callback of an hour or more does not run
  "after a specified delay" (`TimingWheel.h:92`). Both turns are else branches of the test
  for a whole minute, which every hour and every day is.

The properties also record, as exceptions that the runs do reach, what the code
does where one would wish otherwise:

* `MinuteWheelInTime`: a delay of a whole number of minutes ends in an index outside
  the second wheel; others of minutes are over up to a minute early.
* `QuitEndsLoop`: a loop's thread that is destroyed as soon as it was started, before
  `Loop` sets `looping_`, is never joined.
* `TaskRuns`: two loops that forward to each other at the same moment deadlock.
* `RelockNeedsSecondRequest`, `SessionsConsistent`: a connection that makes a second
  request can lock its thread out, and three ways in which a session and its users come
  apart.
* `ServedAsAsked`: a fragment is spoiled by a vector that moves under a reader and by two
  fragments of one millisecond.
* `MessagesAsSent`: timestamps from `0xFFFFFF` on do not survive.
* `RequestsAsSent`, `ParseReturns`: what follows a message in chunks is taken for more
  of it; a header cut by a read keeps the thread spinning. `AnswersWhole`: a chunked
  answer's header may be overwritten before it left.
* `CallsLiveObjects`: a failed attempt after which the relay goes to the next target, or
  retries without an interval, deletes the client whose callback it is; deleted pullers are
  called when a second player starts the relay again or the session ends at the wrong moment;
  a shared target keeps the first stream's name, and what another session then pulls is not
  its own stream.
* `RetriesBounded`: two loops may both pass the test of a target's retries, which then
  exceed their maximum by one for every further loop.
* `PullSettles`: a relay that reached a server waits for it without a bound.
* `NackAnswered`: from packet 65536 on nothing is sent again. `DecoderPrimed`: a repeated DTLS
  flight loses the SPS and PPS. `LeavesOnceInOrder`: a write-complete that reports nothing
  can disturb the order.
* `FragmentPlays`: TS tables carry wrong checksums when STUN was the first to use the shared
  CRC table; an IDR unit lacks its parameter sets once the publisher has sent its own; MP3
  is never announced (`IsCodecHeader`, `HLSMuxer.cpp:20`), and its packets arrive as damaged
  packets of PID 0.
* `NalsReassemble`: a first frame that is damaged may turn the demuxer to start codes
  for good; parameter sets that were not known at the first IDR frame are never sent.

## 4. Proofs

Proved with TLAPS, for every value of the constants that satisfies the modules' named
assumptions (which TLC evaluates in the runs):

* `LiveStream_proofs`, from `StreamAssumption` (sizes are positive naturals, the lock's
  free value is no player) and `NoPacketAssumption`:
  `StreamCorrect` (`Spec => []StreamInv`), and from it `TypeCorrect`, `RingCorrect`
  (`RingHoldsWindow`, `RingLocked`), `OrderCorrect` (`PlayersInOrder`),
  `GapsCorrect` (`GapsAreSkips`), `JoinCorrect` (`JoinsAtKeyFrame`);
  `DecodersConfigured` (`DecoderConfigured`); `NothingEverStranded` (`RingLocked` and
  `NothingStranded`, the safety half of `PlayersServed`);
  `StreamIsFeed` (`Spec => FeedSpec`), that is, `LiveStream` implements `PacketFeed`
  with `published` mapped to `frame_index`.
* `TimingWheel_proofs`, from `WheelAssumption` (an hour and a day are whole numbers of
  minutes, as 60, 3600 and 86400 are; a connection's idle time is less than a minute, as
  30 s is): `WheelCorrect` (`Spec => []WheelInv`), and from it `AlwaysOnTime`
  (`FiresOnTime`), `MinutesAlwaysInTime` (`MinuteWheelInTime`) and `OpenAlwaysTimed`
  (`OpenIsTimed`).
* `LiveSession_proofs`, from `SessionAssumption` (the values for nobody and nothing are no
  thread, user or session): `InvAlways` (`Spec => []SessionInv`), `SessionsAlwaysConsistent`
  (`SessionsConsistent`: its parts `TypeOK`, `NobodyForgotten`, `NoGhosts` and
  `OrphansCameLate`) and `RelockAlwaysNeedsSecondRequest` (`RelockNeedsSecondRequest`).
* `EventLoop_proofs`, from `LoopAssumption`: `LoopCorrect` (`Spec => []LoopInv`) and
  `TasksCorrect` (`Spec => []TasksSafe`).
* `HlsWindow_proofs`, from `HlsAssumption`: `WindowCorrect` (`Spec => []HlsInv`),
  `PlaylistCorrect` (`Spec => PlaylistReliable`, its three invariants and the action
  property `PlaylistAdvances`) and `ServedCorrect` (`Spec => []ServedAsAsked`).
* `PullRelay_proofs`, from `RelayAssumption` (there is a loop, players are on loops, retries
  are naturals, targets have an interval or none, and `None` is not a stream's name):
  `RetriesInLimit` (`Spec => []RetryLimit`, the first part of `RetriesBounded`).
* `WebrtcService_proofs`, from `WebrtcAssumption` (the cache has a slot and there are more
  sequence numbers than slots, `None` is no user, reports are bounded): `Invariant`
  (`Spec => []WebrtcInv`), `InOrder` (`Spec => []LeavesOnceInOrder`), `Held`
  (`Spec => []BufferHeld`), `Primes` (`Spec => []DecoderPrimed`) and `Answers`
  (`Spec => []NackAnswered`).
* `Sequential_proofs`, of three parts that run on one loop each: from `TimeAssumption`
  (times are naturals, the defaults are below the limit) `TimelineCorrect` (`TimeSpec =>
  []TimelineKept`); from `BufferAssumption` `BufferIsQueue` (`BufferSpec =>
  IsByteQueue`), the refinement of `ByteQueue` by the vector with its head and tail;
  from `RtmpAssumption` `RtmpInvariant` (`Spec => []RtmpInv`), `SendsWhileBusy` (`Spec
  => []SendingIsBusy`) and `CountsOnce` (`Spec => []BytesCountedOnce`).

*Why the properties are not inductive.* That a player's frames are in order
follows from what a slot holds when it is read. So `StreamInv` adds:
`RingHoldsWindow`, that slot `i` holds the newest packet congruent to `i`
modulo the ring's size; `GopsAreKeyFrames`, that each listed GOP still has its
key frame in the ring, except GOP 0 for one packet; and `FetchPosition`, that a
reader starts after its last sent frame or just before a listed GOP, and after its
first frame is inside the window. With these, reading slot `out_index + 1` yields
either packet `out_index + 1` or one a multiple of the ring's size later, and
only as the first of a batch. The modular facts (a number in a window of
length `n` is determined by its residue) are lemmas at the top of `LiveStream_proofs`. For the
refinement a second invariant is needed, that a player past `PostFrames` has
seen the stream ready. One lemma per action shows that it preserves `StreamInv`;
actions that leave the stream and the cursors alone share one.

That a decoder is configured needs to know where every header up to the cursor is:
`HeaderKept` says it is reached by the header last given (`decoder`) or last shown
(`header_index`), or waits in the batch as a packet of its kind (`HeadersInRing`). Two
more parts are there because headers overtake frames: a header below `header_index` never
goes with none sent or pending, and a pending header replaces nothing newer that was
sent in its place. It rests on `LocateGop` setting the wait flags again as it clears them
(`AlwaysWaiting`). Nothing is stranded because a player that lets go of its loop with
something fetched has just been refused by a write in flight (`FetchedKept`).

When an entry of the timing wheel fires says nothing of where it is until then. `WheelInv`
gives each element of the second and the minute wheel the tick at which it will fire
(`DueAt`), which no turn of a wheel changes: a slot forward is a tick, and what leaves
the minute wheel goes to the slot of the second wheel with the same tick. Each element is
due by its entry's delay (`ElementsOK`), and an armed entry keeps one that is due exactly
then (`ArmedWait`), so that its last reference goes at that tick. `ArmingsOK` ties ticks to
the clock. `OnTimer` is proved in the order of the code: the second wheel turns
(`SecondsTurn`), `RunEvery`'s entries are armed again (`ArmKeeps`), and only then, every
minute, the minute wheel turns (`MinutesTurn`) - in between it is a full minute behind,
which the parameter `m` of the invariant's parts stands for.

What a session and its users say of each other is broken and repaired in several steps
of several threads, with locks held between some of them. `SessionInv` describes every
point on the way: a user that has not entered its session is nobody's (`AboutToEnter`), who
holds which lock at which step (`LocksOK`), what the holder found in the session is still
there when it goes on (`UnderLock`), a closed user that is still a member has somebody
under way to remove it (`GoneLeave`), and a session is registered, being cleared or
cleared (`SessionsKnown`). `NobodyForgotten` then speaks of calls under way, too (`Kept`).

`NoSleepOnTask` speaks of a loop that waits; `LoopInv` says the same of all the way
from the moment the loop lets go of `lock_` to `epoll_wait` (`WakeOK`), because a task
that comes in between is the one that could be slept on. `ThreadOK` orders `running_`,
`loop_`, the promise and `looping_`; `QueueOK` has tasks numbered as posted, which is why
one is in a single queue.

For HLS, that an entry of the playlist is in the window depends on when the list was
written. `HlsInv` tells everything by sequence numbers: the window holds the fragments
`Base + 1` up to `Newest` in order (`SeqOK`), the playlist ends with `Newest`, or with the
one before it while `AppendFragment` is under way (`ListOK`), and its first entry is
above `Base`. `Base` never goes back; so what a client that nothing spoiled holds is in
the window unchanged, or has left for good and is below whatever is listed
(`ReaderOK`, kept by the publisher's steps through `ReadersKept`). `PlaceOK` puts each used
object in exactly one place; the count of objects (`UsedSize`) also shows that
`GetIdleFragment` finds a new one when none is free (`IdleObject`).

The retries of a shared target are tested in one step of a loop and incremented in a
later one. The invariant of `PullRelay_proofs` (`LimitOK`) therefore counts the loops
between the two (`Counting`): a target's retries and the loops that are about to add to
them are at most `max_retry` and one less than the number of loops more, since whoever
passes the test adds one to retries below the maximum, and all others are at most the other
loops. While no two loops met on the target there is at most one such loop, and what it has
seen is what is there. All other steps leave the retries, the calls and `raced` alone or
only end a call (`Quiet`), which is shown helper by helper.

That packets leave WebRTC's socket in the order of the calls needs to know what
`sending_` promises while a `Send` waits in the loop's queue. `WebrtcInv` says (`Idle`)
that there is at most one such task, that the server is then sending and the socket's list
is empty, so that what the task adds comes next, and that a server that does not send has
nothing waiting; `Pending` then is the socket's list, the task's and the waiting
list, in this order, and what has left and what is pending are together the numbers
handed out. All of that is lost with the first write-complete that finds a task queued
(`stray`); `Holds`, that what the socket or the task has is in the sending list, is not.
For the cache, `Coded` has the packet with number `n` in the slot of `n` modulo the
cache's size, for as many of the newest packets as there are slots; a NACK has only 16 bits
of the number, and the arithmetic of the two rings (`CacheAnswers`) shows that it finds the
packet itself while the numbers fit and a greater one from then on. A user's stream
starts well (`Primed`) because its muxer is made, once, by the user in its
handshake (`init`, `UserFits`), and sends nothing before it is given a key frame; a
second end of DTLS makes a new muxer, and sets `again`. One call of `PostFrames` sends any
number of frames, a fold of the model's `EncodeVideo` (`EncodeAll`).

`TimelineKept` relates sound and picture only while the publisher's own times have
not jumped; its invariant adds what `between` and `fresh` mean for each other and that a
corrected time is never below 0. For the buffer, `BufOK` says that head and tail lie
in the vector and that the vector is never smaller than its capacity; each helper is
shown once to keep `BufOK` and to change the unread bytes in the named way
(`EnsureOK`: not at all, whichever of its three ways it takes), and a step then maps
to `Put`, `PutFront`, `Get`, `Unput` or a stutter.

An RTMP context sends while `sending_` is set and must never leave it set with nothing in
the socket, as nobody would clear it. What a handler is given comes from the wire, so
`RtmpInv` says that every cell is well formed (`CellsOK`: a number in each, a chunk
stream in a header, a message in a body), and so is all that the parser keeps (`InType`);
a packet holds at most the bytes it was made for (`PacketOK`). `Open` - busy exactly while
the connection has bytes - is kept by every handler and shown from its helpers, in the
order in which they call each other: what is pushed (`PushOpens`, `PushHandles`), a
message (`MessageHandles`), a chunk (`TakeChunkParses`), the parser's loop, and the
write-complete. It holds because a message that is not empty makes a chunk
(`ChunksFilled`). During the handshake a context is `Calm`, with nothing sent, called or
counted, and one that waits for the peer has nothing to write (`Waits`), so that the end
of the handshake finds an empty connection. For the acknowledgements, `Booked` says
that `last_left_` is exactly what the buffer still holds, or nothing was counted yet, and
`Accounted` relates the bytes acknowledged and `in_bytes_` to those that reads have
delivered (`fed`); `Balance` shows that one call of `ParseMessage` counts what is new in
the buffer and nothing else, although it takes out of the buffer while it counts.

*Folds.* What a fold does to every sequence is proved for a fixed, named step, by unfolding
the library's definition of `FoldLeft` to its iteration over sets of positions
(`FoldIs`, `IterExists`, `FoldSteps`). The library's induction theorems take the predicate
as a parameter and cannot be instantiated, so each induction is on the set of numbers for
which the statement holds, by well-foundedness (`SetInduction`). In the same way a
recursive function of `RtmpContext` is shown to be one at all, that is, to satisfy its
equation on its domain (`FlattenExists`, `BuiltsExist`, `TurnsExist`).

*Only model-checked:* everything under fairness (`PlayersServed`, `ClosingEnds`,
`TaskRuns`, `QuitEndsLoop`, `PullSettles`, `WaitingDrains`), which is out of the
prover's reach; `CallsLiveObjects` and the number of attempts in `RetriesBounded`, which
are facts of the whole history of a session's objects under every interleaving;
`MessagesAsSent`, `RequestAnswered` and `ChannelSpec` of `RtmpContext`, which relate
what one end's parser makes of a whole stream to what the other end's chunking put into
it, an induction over the stream's contents; `RtpMuxer`, whose receiver puts the
fragments of a NAL unit together with nested folds; and `HttpContext`, `TsMuxer` and
`AmfCodec`, whose handlers call each other recursively as the code's do, and which are
written with RECURSIVE operators that the prover does not take.

## 5. Not modelled

* Text and URLs (`HttpRequest`, `HttpUtils`, SDP), and cryptography (SRTP, certificates,
  the digests of the handshake): the models keep whether a thing is valid.
* Audio transcoding for WebRTC (external libraries), HEVC and the bits of a slice header.
* DNS, the task manager, the loop pool, configuration, logging, `main`: pure I/O, or a
  loop around what is modelled. The settings the models depend on are their CONSTANTS.
* The registration of descriptors with epoll, accepting connections, the server's
  map of connections.
* Data races on containers (the loop's `events_`, a session's `players_` in
  `IsTimeout`, WebRTC's `users_`) are listed as hazards; their outcome is undefined
  memory, which no state of a model describes usefully.
* `HlsWindow` takes a fragment's buffer as large enough: `Fragment::Write` replaces
  it when it grows.

## 6. Plan

Done: the stream and its players, the timing wheel, sessions, the event loop, HLS, the
pull relay, WebRTC, time correction and the byte buffer (modelled, checked, proved); RTMP
(modelled, checked, and proved but for what its streams say of messages); HTTP over TCP, the
multiplexers and AMF (modelled, checked).

Next proofs: `NalsReassemble` of `RtpMuxer`; `MessagesAsSent` of `RtmpContext`; the answers
of `HttpContext`, with its recursion written as functions.

Next models: `LiveSession` composed with `PullRelay`; a WebRTC user in a session; the
text of requests.
