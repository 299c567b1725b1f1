----------------------------- MODULE LiveStream -----------------------------
(***************************************************************************)
(* One live stream: the publisher's thread appends packets to a ring, and  *)
(* every player copies them out with a cursor of its own (live/Stream.cpp, *)
(* live/base/GopMgr.cpp, live/base/CodecHeader.cpp), posts them on its     *)
(* connection (live/user/RtmpPlayerUser.cpp, FlvPlayerUser.cpp) and is     *)
(* woken through Connection::Active / Deactive.                            *)
(*                                                                         *)
(* The publisher and each player run on event loops of their own; a player *)
(* in Local shares the publisher's loop, so that Active() runs its task    *)
(* inline and its steps never overlap the publisher's.                     *)
(*                                                                         *)
(* Payloads are abstracted to the kind of packet.  A video sequence header *)
(* carries the key-frame nibble, so it is a key frame as well, and the     *)
(* time corrector gives every codec header the timestamp 0.                *)
(***************************************************************************)
EXTENDS Integers, Sequences, FiniteSets, FiniteSetsExt

CONSTANTS
  Players,         \* players that may join the session
  Local,           \* those on the publisher's event loop
  FlvPlayers,      \* those that play over HTTP-FLV (the others over RTMP)
  BufferSize,      \* packet_buffer_size_ (1000 in the code)
  BatchSize,       \* packets one GetNextFrame copies (10 in the code)
  ContentLatency,  \* AppInfo::content_latency
  NotifyAlways,    \* every packet below this index wakes the players (300)
  NotifyEvery,     \* and then every so many packets (5)
  Kinds,           \* kinds of packet the publisher sends, a part of AllKinds
  Timestamps,      \* corrected timestamps of media packets
  MaxPackets,      \* bound: packets published
  NoPacket, Free   \* an empty slot; the stream's lock when nobody holds it

HeaderKinds == {"meta", "audio_header", "video_header"}
AllKinds == HeaderKinds \cup {"key", "inter", "audio"}

ASSUME StreamAssumption ==
  /\ Local \subseteq Players
  /\ FlvPlayers \subseteq Players
  /\ BufferSize \in Nat \ {0}
  /\ BatchSize \in Nat \ {0}
  /\ ContentLatency \in Nat
  /\ NotifyAlways \in Nat
  /\ NotifyEvery \in Nat \ {0}
  /\ Kinds \subseteq AllKinds
  /\ Timestamps \subseteq Nat
  /\ MaxPackets \in Nat
  /\ Free \notin Players

Packet == [index : Nat, kind : AllKinds, timestamp : Nat]

ASSUME NoPacketAssumption == NoPacket \notin Packet

VARIABLES
  \* The stream, written by the publisher under lock_.
  frame_index, packet_buffer, gops, lastest_timestamp, headers, ready,
  \* Threads: the holder of lock_, what the publisher is doing, the players it
  \* still has to wake in ActiveAllPlayers, and where each player's loop is.
  lock, publisher, to_wake, pc,
  \* PlayerUser: the cursor and what waits to be pushed.
  out_index, out_timestamp, out_frames, pending, header_index, wait,
  http_header_sent,
  \* Connection and context: active_, queued Active tasks, sending_.
  active, queued, sending,
  \* History: the last frame a player was sent, the newest codec headers it was
  \* sent, and whether the ring ever overwrote packets ahead of its cursor.
  last_sent, decoder, lost

streamVars == <<frame_index, packet_buffer, gops, lastest_timestamp, headers, ready>>
cursorVars == <<out_index, out_timestamp, out_frames, pending, header_index, wait, lost>>
connVars == <<active, queued, sending, http_header_sent>>
viewVars == <<last_sent, decoder>>
vars == <<streamVars, lock, publisher, to_wake, pc, cursorVars, connVars, viewVars>>

None == -1
Index == Nat \cup {None}

TypeOK ==
  /\ frame_index \in Index
  /\ packet_buffer \in [0 .. BufferSize - 1 -> Packet \cup {NoPacket}]
  /\ gops \in SUBSET [index : Nat, timestamp : Nat]
  /\ lastest_timestamp \in Nat
  /\ headers \in [HeaderKinds -> SUBSET Nat]
  /\ ready \in BOOLEAN
  /\ lock \in Players \cup {Free}
  /\ publisher \in {"idle", "added", "waking"}
  /\ to_wake \in SUBSET Players
  /\ pc \in [Players -> {"absent", "joined", "idle", "post", "get", "fetch",
                         "push", "deactive"}]
  /\ out_index \in [Players -> Index]
  /\ out_timestamp \in [Players -> Nat]
  /\ out_frames \in [Players -> Seq(Packet)]
  /\ pending \in [Players -> [HeaderKinds -> Index]]
  /\ header_index \in [Players -> [HeaderKinds -> Index]]
  /\ wait \in [Players -> [HeaderKinds -> BOOLEAN]]
  /\ http_header_sent \in [Players -> BOOLEAN]
  /\ active \in [Players -> BOOLEAN]
  /\ queued \in [Players -> Nat]
  /\ sending \in [Players -> BOOLEAN]
  /\ last_sent \in [Players -> Index]
  /\ decoder \in [Players -> [HeaderKinds -> Index]]
  /\ lost \in [Players -> BOOLEAN]

Init ==
  /\ frame_index = -1
  /\ packet_buffer = [i \in 0 .. BufferSize - 1 |-> NoPacket]
  /\ gops = {}
  /\ lastest_timestamp = 0
  /\ headers = [k \in HeaderKinds |-> {}]
  /\ ready = FALSE
  /\ lock = Free
  /\ publisher = "idle"
  /\ to_wake = {}
  /\ pc = [u \in Players |-> "absent"]
  /\ out_index = [u \in Players |-> -1]
  /\ out_timestamp = [u \in Players |-> 0]
  /\ out_frames = [u \in Players |-> <<>>]
  /\ pending = [u \in Players |-> [k \in HeaderKinds |-> None]]
  /\ header_index = [u \in Players |-> [k \in HeaderKinds |-> 0]]
  /\ wait = [u \in Players |-> [k \in HeaderKinds |-> TRUE]]
  /\ http_header_sent = [u \in Players |-> FALSE]
  /\ active = [u \in Players |-> FALSE]
  /\ queued = [u \in Players |-> 0]
  /\ sending = [u \in Players |-> FALSE]
  /\ last_sent = [u \in Players |-> None]
  /\ decoder = [u \in Players |-> [k \in HeaderKinds |-> None]]
  /\ lost = [u \in Players |-> FALSE]

-----------------------------------------------------------------------------
(* Lookups.                                                                *)

Slot(i) == i % BufferSize

IsKeyFrame(kind) == kind \in {"key", "video_header"}

HasMedia == \E k \in HeaderKinds : headers[k] # {}

\* GetGopByLatency: from the newest GOP back, as long as each lies within the
\* latency; the oldest of those, or None.
GopByLatency ==
  LET recent == {g \in gops : \A h \in gops : h.index >= g.index =>
                   lastest_timestamp - h.timestamp <= ContentLatency}
  IN  IF recent = {} THEN None ELSE Min({g.index : g \in recent})

\* Mutant of CodecHeaderAt: the list is searched from its front.
OldestHeaderAt(k, idx) == IF headers[k] = {} THEN None ELSE Min(headers[k])

\* Meta, AudioHeader and VideoHeader: the newest header of the kind at or before
\* idx, or the newest of all when there is none or idx <= 0; None without one.
CodecHeaderAt(k, idx) ==
  LET before == {h \in headers[k] : idx > 0 /\ h <= idx}
  IN  CASE headers[k] = {} -> None
        [] before # {}     -> Max(before)
        [] OTHER           -> Max(headers[k])

\* Mutant of ClearExpriedGop: GOPs are never expired.
KeepAllGops(S, min_idx) == S

\* ClearExpriedGop, called when min_idx > 0.
ClearExpriedGop(S, min_idx) ==
  IF min_idx > 0 THEN {g \in S : g.index > min_idx} ELSE S

\* Mutant of CursorBefore: the cursor is put on the key frame, not before it.
CursorOn(idx) == idx
CursorBefore(idx) == idx - 1

\* Mutant of GopAhead: SkipFrame forgets the test idx <= out_index_.
GopAnywhere(u) == GopByLatency # None
GopAhead(u) == GopByLatency > out_index[u]

\* The order in which the else-ifs of PostFrames look at pending headers.
FirstPending(u) ==
  CASE pending[u]["meta"] # None         -> "meta"
    [] pending[u]["audio_header"] # None -> "audio_header"
    [] OTHER                             -> "video_header"

NoHeaderPending(u) == \A k \in HeaderKinds : pending[u][k] = None

\* A thread runs one handler at a time: a player that shares the publisher's
\* loop waits while the publisher, or another such player, is in a handler, and
\* the other way round.
PublisherLoopFree == \A u \in Local : pc[u] \in {"absent", "idle"}
LoopFree(u) == u \in Local => publisher = "idle" /\ PublisherLoopFree

-----------------------------------------------------------------------------
(* The publisher's thread.                                                 *)

\* AddPacket, the part under lock_.  Waking the players is due afterwards only
\* for the first packets and then for one in every NotifyEvery.
AddPacket(kind, ts) ==
  LET index   == frame_index + 1
      stamp   == IF kind \in HeaderKinds THEN 0 ELSE ts
      item    == [index |-> index, timestamp |-> stamp]
      started == IF IsKeyFrame(kind) THEN gops \cup {item} ELSE gops
  IN  /\ publisher = "idle" /\ PublisherLoopFree
      /\ lock = Free
      /\ index < MaxPackets
      /\ frame_index' = index
      /\ ready' = (ready \/ IsKeyFrame(kind))
      /\ headers' = [k \in HeaderKinds |->
                       IF k = kind THEN headers[k] \cup {index} ELSE headers[k]]
      /\ lastest_timestamp' = stamp
      /\ packet_buffer' = [packet_buffer EXCEPT ![Slot(index)] =
                             [index |-> index, kind |-> kind, timestamp |-> stamp]]
      /\ gops' = ClearExpriedGop(started, index - BufferSize)
      /\ publisher' = IF index < NotifyAlways \/ index % NotifyEvery = 0
                        THEN "added" ELSE "idle"
      /\ UNCHANGED <<lock, to_wake, pc, cursorVars, connVars, viewVars>>

\* ActiveAllPlayers takes the session's lock and walks players_.
ActiveAllPlayers ==
  /\ publisher = "added"
  /\ publisher' = "waking"
  /\ to_wake' = {u \in Players : pc[u] # "absent"}
  /\ UNCHANGED <<streamVars, lock, pc, cursorVars, connVars, viewVars>>

\* Connection::Active on one player: nothing if active_ is set, else a task for
\* its loop, which RunInLoop runs at once on the publisher's own loop.
Active(u) ==
  /\ publisher = "waking" /\ u \in to_wake /\ PublisherLoopFree
  /\ to_wake' = to_wake \ {u}
  /\ IF active[u]
       THEN UNCHANGED <<active, queued, pc>>
       ELSE IF u \in Local
         THEN /\ active' = [active EXCEPT ![u] = TRUE]
              /\ pc' = [pc EXCEPT ![u] = "post"]
              /\ UNCHANGED queued
         ELSE /\ queued' = [queued EXCEPT ![u] = @ + 1]
              /\ UNCHANGED <<active, pc>>
  /\ UNCHANGED <<streamVars, lock, publisher, cursorVars, sending,
                 http_header_sent, viewVars>>

AllWoken ==
  /\ publisher = "waking" /\ to_wake = {} /\ PublisherLoopFree
  /\ publisher' = "idle"
  /\ UNCHANGED <<streamVars, lock, to_wake, pc, cursorVars, connVars, viewVars>>

-----------------------------------------------------------------------------
(* A player's thread: joining and being woken.                             *)

\* Session::AddPlayer inserts the player under the session's lock.  An RTMP
\* player may still have the reply to its play command in flight.
AddPlayer(u) ==
  /\ pc[u] = "absent" /\ LoopFree(u)
  /\ publisher # "waking"
  /\ pc' = [pc EXCEPT ![u] = "joined"]
  /\ \E s \in IF u \in FlvPlayers THEN {FALSE} ELSE BOOLEAN :
       sending' = [sending EXCEPT ![u] = s]
  /\ UNCHANGED <<streamVars, lock, publisher, to_wake, cursorVars, active,
                 queued, http_header_sent, viewVars>>

\* AddPlayer ends with user->Active(), on the player's own thread.
ActiveSelf(u) ==
  /\ pc[u] = "joined"
  /\ active' = [active EXCEPT ![u] = TRUE]
  /\ pc' = [pc EXCEPT ![u] = IF active[u] THEN "idle" ELSE "post"]
  /\ UNCHANGED <<streamVars, lock, publisher, to_wake, cursorVars, queued,
                 sending, http_header_sent, viewVars>>

\* The task queued by Active runs in the player's loop.
HasTask(u) == queued[u] > 0
RunActive(u) ==
  /\ pc[u] = "idle" /\ HasTask(u)
  /\ queued' = [queued EXCEPT ![u] = @ - 1]
  /\ active' = [active EXCEPT ![u] = TRUE]
  /\ pc' = [pc EXCEPT ![u] = "post"]
  /\ UNCHANGED <<streamVars, lock, publisher, to_wake, cursorVars, sending,
                 http_header_sent, viewVars>>

\* CheckAndSend, with nothing queued, calls OnActive, that is PostFrames again.
\* Mutant of PostAgain: CheckAndSend only looks at its own queue.
NoPostAgain(u) == UNCHANGED pc
PostAgain(u) == pc' = [pc EXCEPT ![u] = "post"]

\* The socket took everything: the context clears sending_.
WriteComplete(u) ==
  /\ pc[u] = "idle" /\ sending[u] /\ LoopFree(u)
  /\ sending' = [sending EXCEPT ![u] = FALSE]
  /\ PostAgain(u)
  /\ UNCHANGED <<streamVars, lock, publisher, to_wake, cursorVars, active,
                 queued, http_header_sent, viewVars>>

-----------------------------------------------------------------------------
(* A player's thread: PostFrames.                                          *)

\* The stream is not ready, or has no codec header yet.
PostTooEarly(u) ==
  /\ pc[u] = "post" /\ ~(ready /\ HasMedia)
  /\ pc' = [pc EXCEPT ![u] = "deactive"]
  /\ UNCHANGED <<streamVars, lock, publisher, to_wake, cursorVars, connVars, viewVars>>

\* The context's Send: sending_ stays set until the write completes.
Send(u) == sending' = [sending EXCEPT ![u] = TRUE]

\* PushFlvHttpHeader, before anything else an HTTP-FLV player sends.
PostHttpHeader(u) ==
  /\ pc[u] = "post" /\ ready /\ HasMedia
  /\ u \in FlvPlayers /\ ~http_header_sent[u]
  /\ http_header_sent' = [http_header_sent EXCEPT ![u] = TRUE]
  /\ Send(u)
  /\ pc' = [pc EXCEPT ![u] = "idle"]
  /\ UNCHANGED <<streamVars, lock, publisher, to_wake, cursorVars, active, queued, viewVars>>

PostFrames(u) ==
  /\ pc[u] = "post" /\ ready /\ HasMedia
  /\ u \in FlvPlayers => http_header_sent[u]
  /\ pc' = [pc EXCEPT ![u] = "get"]
  /\ UNCHANGED <<streamVars, lock, publisher, to_wake, cursorVars, connVars, viewVars>>

\* Connection::Deactive, a moment after the player saw nothing to send.
Deactive(u) ==
  /\ pc[u] = "deactive"
  /\ active' = [active EXCEPT ![u] = FALSE]
  /\ pc' = [pc EXCEPT ![u] = "idle"]
  /\ UNCHANGED <<streamVars, lock, publisher, to_wake, cursorVars, queued,
                 sending, http_header_sent, viewVars>>

-----------------------------------------------------------------------------
(* A player's thread: Stream::GetFrames.                                   *)

\* Something fetched before is still waiting to be pushed.
GetNothingNew(u) ==
  /\ pc[u] = "get"
  /\ ~NoHeaderPending(u) \/ out_frames[u] # <<>>
  /\ pc' = [pc EXCEPT ![u] = "push"]
  /\ UNCHANGED <<streamVars, lock, publisher, to_wake, cursorVars, connVars, viewVars>>

MayGet(u) ==
  /\ pc[u] = "get" /\ NoHeaderPending(u) /\ out_frames[u] = <<>>
  /\ lock = Free

\* The reader fell behind the ring, or by more than twice the latency.
NeedSkip(u) ==
  \/ out_index[u] < frame_index - BufferSize
  \/ lastest_timestamp - out_timestamp[u] > 2 * ContentLatency

\* LocateGop finds no GOP within the latency: the player keeps waiting.
LocateGopFails(u) ==
  /\ MayGet(u) /\ out_index[u] < 0 /\ GopByLatency = None
  /\ pc' = [pc EXCEPT ![u] = "push"]
  /\ UNCHANGED <<streamVars, lock, publisher, to_wake, cursorVars, connVars, viewVars>>

\* LocateGop: the cursor goes before the GOP and the headers in force there
\* become pending; the wait flags are set again once none is missing.
LocateGop(u) ==
  LET idx    == GopByLatency
      wanted == {k \in HeaderKinds : wait[u][k] /\ headers[k] # {}}
      found  == {k \in wanted : CodecHeaderAt(k, idx) # None}
  IN  /\ MayGet(u) /\ out_index[u] < 0 /\ idx # None
      /\ out_index' = [out_index EXCEPT ![u] = CursorBefore(idx)]
      /\ pending' = [pending EXCEPT ![u] = [k \in HeaderKinds |->
                       IF k \in found THEN CodecHeaderAt(k, idx) ELSE @[k]]]
      /\ header_index' = [header_index EXCEPT ![u] = [k \in HeaderKinds |->
                       IF k \in found THEN CodecHeaderAt(k, idx) ELSE @[k]]]
      /\ wait' = [wait EXCEPT ![u] = [k \in HeaderKinds |->
                       wanted = found \/ k \in wanted \ found]]
      /\ lock' = IF wanted = found THEN u ELSE Free
      /\ pc' = [pc EXCEPT ![u] = IF wanted = found THEN "fetch" ELSE "push"]
      /\ UNCHANGED <<streamVars, publisher, to_wake, out_timestamp, out_frames,
                     lost, connVars, viewVars>>

\* SkipFrame finds a later GOP: newer headers become pending and the cursor
\* jumps before it.
SkipFrame(u) ==
  LET idx   == GopByLatency
      newer == {k \in HeaderKinds : CodecHeaderAt(k, idx) > header_index[u][k]}
  IN  /\ MayGet(u) /\ out_index[u] >= 0
      /\ NeedSkip(u) /\ GopAhead(u)
      /\ pending' = [pending EXCEPT ![u] = [k \in HeaderKinds |->
                       IF k \in newer THEN CodecHeaderAt(k, idx) ELSE @[k]]]
      /\ header_index' = [header_index EXCEPT ![u] = [k \in HeaderKinds |->
                       IF k \in newer THEN CodecHeaderAt(k, idx) ELSE @[k]]]
      /\ out_index' = [out_index EXCEPT ![u] = CursorBefore(idx)]
      /\ lock' = u
      /\ pc' = [pc EXCEPT ![u] = "fetch"]
      /\ UNCHANGED <<streamVars, publisher, to_wake, out_timestamp, out_frames,
                     wait, lost, connVars, viewVars>>

\* The cursor is recent enough, or SkipFrame found nothing ahead of it.
StayInPlace(u) ==
  /\ MayGet(u) /\ out_index[u] >= 0
  /\ NeedSkip(u) => ~GopAhead(u)
  /\ lock' = u
  /\ pc' = [pc EXCEPT ![u] = "fetch"]
  /\ UNCHANGED <<streamVars, publisher, to_wake, cursorVars, connVars, viewVars>>

\* One turn of GetNextFrame's loop: whatever packet the slot holds, and the
\* cursor follows that packet's own index.
\* Mutant of CanFetch: the test idx > max_idx is forgotten.
CanFetchPastHead(u) ==
  /\ Len(out_frames[u]) < BatchSize
  /\ packet_buffer[Slot(out_index[u] + 1)] # NoPacket
CanFetch(u) ==
  /\ Len(out_frames[u]) < BatchSize
  /\ out_index[u] + 1 <= frame_index
  /\ packet_buffer[Slot(out_index[u] + 1)] # NoPacket

GetNextFrame(u) ==
  LET pkt == packet_buffer[Slot(out_index[u] + 1)]
  IN  /\ pc[u] = "fetch" /\ CanFetch(u)
      /\ out_frames' = [out_frames EXCEPT ![u] = Append(@, pkt)]
      /\ out_index' = [out_index EXCEPT ![u] = pkt.index]
      /\ out_timestamp' = [out_timestamp EXCEPT ![u] = pkt.timestamp]
      /\ lost' = [lost EXCEPT ![u] = @ \/ pkt.index # out_index[u] + 1]
      /\ UNCHANGED <<streamVars, lock, publisher, to_wake, pc, pending,
                     header_index, wait, connVars, viewVars>>

\* The loop ends and GetFrames releases lock_.
Unlock == lock' = Free
GotFrames(u) ==
  /\ pc[u] = "fetch" /\ ~CanFetch(u)
  /\ Unlock
  /\ pc' = [pc EXCEPT ![u] = "push"]
  /\ UNCHANGED <<streamVars, publisher, to_wake, cursorVars, connVars, viewVars>>

-----------------------------------------------------------------------------
(* A player's thread: what PostFrames sends.                               *)

\* One pending header, if the context is Ready().
PushHeader(u) ==
  LET k == FirstPending(u)
  IN  /\ pc[u] = "push" /\ ~NoHeaderPending(u) /\ ~sending[u]
      /\ Send(u)
      /\ decoder' = [decoder EXCEPT ![u][k] = pending[u][k]]
      /\ pending' = [pending EXCEPT ![u][k] = None]
      /\ pc' = [pc EXCEPT ![u] = "idle"]
      /\ UNCHANGED <<streamVars, lock, publisher, to_wake, out_index, out_timestamp,
                     out_frames, header_index, wait, lost, active, queued,
                     http_header_sent, last_sent>>

\* The whole batch, once no header is pending.
PushFrames(u) ==
  LET out       == out_frames[u]
      inband(k) == {i \in 1 .. Len(out) : out[i].kind = k}
  IN  /\ pc[u] = "push" /\ NoHeaderPending(u) /\ out # <<>> /\ ~sending[u]
      /\ Send(u)
      /\ last_sent' = [last_sent EXCEPT ![u] = out[Len(out)].index]
      /\ decoder' = [decoder EXCEPT ![u] = [k \in HeaderKinds |->
                       IF inband(k) = {} THEN @[k] ELSE out[Max(inband(k))].index]]
      /\ out_frames' = [out_frames EXCEPT ![u] = <<>>]
      /\ pc' = [pc EXCEPT ![u] = "idle"]
      /\ UNCHANGED <<streamVars, lock, publisher, to_wake, out_index, out_timestamp,
                     pending, header_index, wait, lost, active, queued, http_header_sent>>

\* The context is still sending: what was fetched waits for WriteComplete.
PushRefused(u) ==
  /\ pc[u] = "push" /\ sending[u]
  /\ ~NoHeaderPending(u) \/ out_frames[u] # <<>>
  /\ pc' = [pc EXCEPT ![u] = "idle"]
  /\ UNCHANGED <<streamVars, lock, publisher, to_wake, cursorVars, connVars, viewVars>>

NothingToSend(u) ==
  /\ pc[u] = "push" /\ NoHeaderPending(u) /\ out_frames[u] = <<>>
  /\ pc' = [pc EXCEPT ![u] = "deactive"]
  /\ UNCHANGED <<streamVars, lock, publisher, to_wake, cursorVars, connVars, viewVars>>

-----------------------------------------------------------------------------
PublisherNext ==
  \/ \E kind \in Kinds : \E ts \in IF kind \in HeaderKinds THEN {0} ELSE Timestamps :
       AddPacket(kind, ts)
  \/ ActiveAllPlayers
  \/ \E u \in Players : Active(u)
  \/ AllWoken

\* What a player's loop does once it has started a handler.
HandlerStep(u) ==
  \/ ActiveSelf(u)
  \/ PostTooEarly(u) \/ PostHttpHeader(u) \/ PostFrames(u) \/ Deactive(u)
  \/ GetNothingNew(u) \/ LocateGopFails(u) \/ LocateGop(u) \/ SkipFrame(u)
  \/ StayInPlace(u) \/ GetNextFrame(u) \/ GotFrames(u)
  \/ PushHeader(u) \/ PushFrames(u) \/ PushRefused(u) \/ NothingToSend(u)

PlayerNext(u) ==
  \/ AddPlayer(u) \/ RunActive(u) \/ WriteComplete(u) \/ HandlerStep(u)

Next == PublisherNext \/ \E u \in Players : PlayerNext(u)

Spec == Init /\ [][Next]_vars

\* Each event loop keeps running its handlers and tasks, and each socket is
\* drained by its peer.  Nothing is assumed of the publisher's input or of
\* players joining.
Fairness ==
  /\ WF_vars(ActiveAllPlayers) /\ WF_vars(AllWoken)
  /\ \A u \in Players : /\ WF_vars(Active(u))
                        /\ WF_vars(HandlerStep(u))
                        /\ WF_vars(RunActive(u))
                        /\ WF_vars(WriteComplete(u))

FairSpec == Spec /\ Fairness

-----------------------------------------------------------------------------
(* Properties.                                                             *)

\* A slot of the ring holds nothing until the stream reaches it, and from then
\* on the newest packet that maps to it: the ring is exactly the window of the
\* last BufferSize packets (AddPacket, Stream.cpp:108).
RingHoldsWindow ==
  \A i \in 0 .. BufferSize - 1 :
    IF i > frame_index
      THEN packet_buffer[i] = NoPacket
      ELSE /\ packet_buffer[i] \in Packet
           /\ Slot(packet_buffer[i].index) = i
           /\ frame_index - BufferSize < packet_buffer[i].index
           /\ packet_buffer[i].index <= frame_index

\* lock_ is held by the player that copies frames and by nobody else, so that
\* the ring stands still under a reader (GetFrames, Stream.cpp:142).
RingLocked ==
  \A u \in Players : pc[u] = "fetch" <=> lock = u

\* A player's cursor never runs ahead of the stream, never behind what the
\* player was sent, and what waits to be sent continues, in increasing order and
\* without a gap inside the batch, after the last frame sent: whatever the ring
\* overwrites and however the cursor skips, no frame is repeated or reordered.
PlayersInOrder ==
  \A u \in Players :
    /\ last_sent[u] <= out_index[u] /\ out_index[u] <= frame_index
    /\ \A i \in 1 .. Len(out_frames[u]) :
         out_frames[u][i].index = out_index[u] - (Len(out_frames[u]) - i)
    /\ out_frames[u] # <<>> => last_sent[u] < out_frames[u][1].index

\* A player that is being sent frames sees a gap only where it resumes at a key
\* frame, or where the packets it missed had left the ring.
GapsAreSkips ==
  \A u \in Players :
    last_sent[u] # None /\ out_frames[u] # <<>> =>
      \/ out_frames[u][1].index = last_sent[u] + 1
      \/ IsKeyFrame(out_frames[u][1].kind)
      \/ last_sent[u] + 1 <= frame_index - BufferSize

\* The first frame a player gets is a key frame.  The one exception comes from
\* the test min_idx > 0 (Stream.cpp:110): GOP 0 is kept at the very packet that
\* overwrites its key frame, and a player located there starts at that packet.
JoinsAtKeyFrame ==
  \A u \in Players :
    last_sent[u] = None /\ out_frames[u] # <<>> =>
      IsKeyFrame(out_frames[u][1].kind) \/ out_frames[u][1].index = BufferSize

\* A player that never lost packets to the ring has been sent a codec header of
\* every kind that the publisher announced before the last frame it was sent,
\* and the newest such one, except that a header sent ahead of its place when
\* the player was located is not sent a second time (SkipFrame, Stream.cpp:262).
DecoderConfigured ==
  \A u \in Players : \A k \in HeaderKinds :
    LET before == {h \in headers[k] : h <= last_sent[u]}
    IN  ~lost[u] /\ before # {} =>
          /\ decoder[u][k] # None
          /\ decoder[u][k] >= Max(before) \/ header_index[u][k] >= Max(before)

\* The indices of the GOP list and of the codec headers are packets that were
\* published; a listed GOP still has its key frame in the ring, but for GOP 0 at
\* the very packet that overwrites it (ClearExpriedGop, GopMgr.cpp:48).
GopsAreKeyFrames ==
  \A g \in gops :
    /\ g.index <= frame_index
    /\ \/ g.index = 0 /\ frame_index = BufferSize
       \/ /\ frame_index - BufferSize < g.index
          /\ packet_buffer[Slot(g.index)].index = g.index
          /\ IsKeyFrame(packet_buffer[Slot(g.index)].kind)

HeadersPublished == \A k \in HeaderKinds : headers[k] \subseteq 0 .. frame_index

\* Where GetNextFrame starts reading: after the last frame sent or at a GOP; and
\* after its first turn the cursor is inside the ring's window.
FetchPosition ==
  \A u \in Players :
    IF pc[u] = "fetch"
      THEN IF out_frames[u] = <<>>
             THEN \/ last_sent[u] # None /\ out_index[u] = last_sent[u]
                  \/ \E g \in gops : g.index = out_index[u] + 1
             ELSE frame_index - BufferSize < out_index[u]
      ELSE out_frames[u] = <<>> => out_index[u] = last_sent[u]

\* The inductive invariant behind the safety properties: the GOP list and the
\* reader's position tie the players' cursors to the contents of the ring.
StreamInv ==
  /\ TypeOK
  /\ RingHoldsWindow
  /\ RingLocked
  /\ HeadersPublished
  /\ GopsAreKeyFrames
  /\ FetchPosition
  /\ PlayersInOrder
  /\ GapsAreSkips
  /\ JoinsAtKeyFrame

\* Whatever a player fetched and could not push is pushed when the write in
\* flight completes: a player is never idle with frames and no write pending
\* (PushFrame returning false, RtmpPlayerUser.cpp:73).
NothingStranded ==
  \A u \in Players :
    pc[u] = "idle" /\ (out_frames[u] # <<>> \/ ~NoHeaderPending(u)) => sending[u]

\* A player that is woken, once located in the stream, is sent everything that
\* had been published when it was woken, however many batches that takes.
WokenPlayerCatchesUp ==
  \A u \in Players : \A i \in 0 .. MaxPackets - 1 :
    (queued[u] > 0 /\ out_index[u] >= 0 /\ frame_index = i) ~> (last_sent[u] >= i)

\* Together: the ring stands still under a reader, what a player fetched goes out,
\* and once it is woken it gets all there is (GetFrames; PostFrames, CheckAndSend and
\* WriteComplete; Connection::Active and Deactive).
PlayersServed == [](RingLocked /\ NothingStranded) /\ WokenPlayerCatchesUp

\* A player is sent an increasing subsequence of what was published: every step
\* of the stream, its players and their connections is a step of the feed.
Feed == INSTANCE PacketFeed WITH published <- frame_index
FeedSpec == Feed!Spec

=============================================================================
