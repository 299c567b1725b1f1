--------------------------- MODULE WebrtcService ---------------------------
(***************************************************************************)
(* Playing by WebRTC: live/WebrtcService.cpp, live/user/WebrtcPlayerUser,  *)
(* mmedia/webrtc/WebrtcServer.cpp, Dtls.cpp, mmedia/rtp/RtpMuxer.cpp and   *)
(* network/net/UdpSocket.cpp.                                              *)
(*                                                                         *)
(* Three kinds of threads meet here.  The HTTP loop answers the offer and  *)
(* registers the user.  The loop of the one UDP socket handles the STUN,   *)
(* DTLS and RTCP datagrams of all users, runs the queued Send tasks and    *)
(* writes.  The loops of the publishers push frames, one at a time under   *)
(* users_lock_.  SendPacket and WriteComplete hold the server's lock.      *)
(*                                                                         *)
(* A packet handed to SendPacket is its index in handed, so that two equal *)
(* datagrams stay apart.  One video stream with its sequence header known  *)
(* is modelled; every frame fits one RTP packet.                           *)
(***************************************************************************)
EXTENDS Naturals, Sequences, FiniteSets, SequencesExt

CONSTANTS
  Users, Addrs, None,
  Kinds,       \* the frames of the stream: "key", "full" (with SPS/PPS), "inter" or "b"
  QueueSize,   \* size of video_queue_ (500)
  SeqNums,      \* RTP sequence numbers on the wire (2^16); sequence_ has 32 bits
  MaxIn,       \* bound: datagrams that arrive
  Blp,         \* bound: bits of a NACK's bitmask that may be set (1 .. 16)
  MaxReports   \* bound: sender reports per user

ASSUME WebrtcAssumption ==
  /\ Kinds \in Seq({"key", "full", "inter", "b"})
  /\ QueueSize \in Nat \ {0} /\ SeqNums \in Nat /\ SeqNums > QueueSize
  /\ None \notin Users /\ MaxIn \in Nat /\ MaxReports \in Nat \ {0} /\ Blp \subseteq 1 .. 16

VARIABLES
  user,    \* per user: registration, address, DTLS, muxer, packet cache
  users,   \* users_: the user that first spoke from an address
  made,    \* frames the stream has
  push,    \* users that Push2Players still has to visit
  calls,   \* packet lists that the publisher's PostFrames still has to send
  srv,     \* WebrtcServer and UdpSocket
  handed,  \* packets handed to SendPacket, in order
  wire,    \* datagrams that left
  in,      \* datagrams that arrived
  init,    \* the user whose OnDtlsHandshakeDone has set dtls_done_ and goes on
  stray,   \* a write-complete came while a Send task was queued
  down     \* a null muxer was called: the process is gone

vars == <<user, users, made, push, calls, srv, handed, wire, in, init, stray, down>>
net  == <<srv, handed, wire, stray>>

-----------------------------------------------------------------------------
(* WebrtcServer and UdpSocket.  Send captures udp_outs_ by reference: in   *)
(* the loop's own thread it runs at once, from another one as a task.      *)

\* UdpSocket::SendInLoop; writing is never disabled again.
SendInLoop(s) ==
  LET b == s.buffer \o s.outs
  IN IF b = <<>> THEN s ELSE [s EXCEPT !.buffer = b, !.writing = TRUE, !.edge = TRUE]

UdpSend(s, inLoop) == IF inLoop THEN SendInLoop(s) ELSE [s EXCEPT !.tasks = @ + 1]

\* Mutant: a packet that comes while the server is sending is sent over the list.
SendPacketOver(s, list, inLoop) ==
  UdpSend([s EXCEPT !.outs = list, !.held = @ \o list, !.sending = TRUE], inLoop)
SendPacket(s, list, inLoop) ==
  IF s.sending THEN [s EXCEPT !.waiting = @ \o list]
  ELSE IF list = <<>> THEN [s EXCEPT !.outs = <<>>]
  ELSE UdpSend([s EXCEPT !.outs = list, !.held = @ \o list, !.sending = TRUE], inLoop)

\* Called from the loop only, with the lock held.
\* Mutant: the packets are not kept while they are sent.
OnSendUnheld(s) ==
  IF s.sending \/ s.waiting = <<>> THEN s
  ELSE SendInLoop([s EXCEPT !.outs = s.waiting, !.waiting = <<>>, !.sending = TRUE])
OnSend(s) ==
  IF s.sending \/ s.waiting = <<>> THEN s
  ELSE SendInLoop([s EXCEPT !.outs = s.waiting, !.held = @ \o s.waiting, !.waiting = <<>>,
                            !.sending = TRUE])

\* Mutant: what waits is left to the next SendPacket.
WriteCompleteOnly(s) == [s EXCEPT !.sending = FALSE, !.held = <<>>, !.outs = <<>>]
WriteComplete(s) == OnSend([s EXCEPT !.sending = FALSE, !.held = <<>>, !.outs = <<>>])

\* SendPacket called with packets of the given contents; the caller is the loop or not.
Hand(packets, inLoop) ==
  /\ handed' = handed \o packets
  /\ srv' = SendPacket(srv, [i \in 1 .. Len(packets) |-> Len(handed) + i], inLoop)
  /\ UNCHANGED <<wire, stray>>

-----------------------------------------------------------------------------
(* The offer, STUN and DTLS.                                               *)

\* OnRequest adds the player and posts the answer, and only then makes the user known
\* to OnStun.
OnRequest(u) ==
  /\ user[u].st = "new"
  /\ user' = [user EXCEPT ![u].st = "answered"]
  /\ UNCHANGED <<users, made, push, calls, net, in, init, down>>
Register(u) ==
  /\ user[u].st = "answered"
  /\ user' = [user EXCEPT ![u].st = "known"]
  /\ UNCHANGED <<users, made, push, calls, net, in, init, down>>

\* A datagram is read when the loop is in no other handler.
Receive == in < MaxIn /\ in' = in + 1 /\ init = None

\* Queued packets share the user's sockaddr: a new address redirects them, too.
OnStun(u, a) ==
  /\ Receive /\ user[u].st # "new"
  /\ IF user[u].st = "answered" THEN UNCHANGED <<user, users, net>>
     ELSE /\ user' = [user EXCEPT ![u].addr = a]
          /\ Hand(<<<<"stun", u, 0, 0>>>>, TRUE)
          /\ users' = IF users[a] = None THEN [users EXCEPT ![a] = u] ELSE users
  /\ UNCHANGED <<made, push, calls, init, down>>

\* A record of the user behind the address: the first is answered, the second ends
\* the handshake, and any later one (a repeated flight, an alert) finds is_done_ set
\* and ends it again.
OnDtls(a) ==
  /\ Receive /\ users[a] # None
  /\ LET u == users[a]
     IN IF user[u].dtls = 0
        THEN /\ user' = [user EXCEPT ![u].dtls = 1]
             /\ Hand(<<<<"dtls", u, 0, 0>>>>, TRUE) /\ UNCHANGED init
        ELSE /\ user' = [user EXCEPT ![u].dtls = 2, ![u].dtls_done = TRUE,
                                     ![u].again = user[u].dtls = 2]
             /\ init' = u
             /\ IF user[u].dtls = 1 THEN Hand(<<<<"dtls", u, 1, 0>>>>, TRUE) ELSE UNCHANGED net
  /\ UNCHANGED <<users, made, push, calls, down>>

\* The rest of OnDtlsHandshakeDone: new SRTP contexts, and a muxer with new packetizers
\* and demuxers, whose sequence starts over; what it has sent it remembers.
InitMuxer ==
  /\ init # None
  /\ user' = [user EXCEPT ![init].muxer = TRUE, ![init].seq = 0, ![init].sps = FALSE,
                          ![init].log = <<>>]
  /\ init' = None
  /\ UNCHANGED <<users, made, push, calls, net, in, down>>

-----------------------------------------------------------------------------
(* Frames.                                                                 *)

\* Stream::AddPacket pushes to everybody known by an address.
AddPacket ==
  /\ push = {} /\ calls = <<>> /\ made < Len(Kinds)
  /\ made' = made + 1
  /\ push' = {users[a] : a \in Addrs} \ {None}
  /\ UNCHANGED <<user, users, calls, net, in, init, down>>

\* RtpMuxer::EncodeVideo on a user's record: the sequence header only tells the demuxer
\* SPS and PPS, which go out once before the first IDR frame that lacks them.
Packetize(v, frame) ==
  LET p == <<v.seq + 1, frame>>
  IN [v EXCEPT !.seq = @ + 1, !.log = Append(@, p), !.cache[p[1] % QueueSize] = p,
               !.out = Append(@, p)]
EncodeVideo(v, i) ==
  LET k == Kinds[i]
      primed == IF k = "key" /\ ~v.sentsps
                THEN [IF v.sps THEN Packetize(v, 0) ELSE v EXCEPT !.sentsps = TRUE]
                ELSE IF k = "full" THEN [v EXCEPT !.sentsps = TRUE] ELSE v
  IN IF k = "b" THEN v ELSE Packetize(primed, i)

\* Stream::GetFrames: the first time from a key frame, with the sequence header.
\* Mutant: the header follows the frames it came with.
Locate(v, from) == IF v.pos = 0 THEN [v EXCEPT !.pos = from - 1, !.sps = TRUE] ELSE v
EncodeHeaderLate(v, from) ==
  LET start == IF v.pos = 0 THEN from - 1 ELSE v.pos
      fresh == v.pos = 0
      coded == FoldLeft(EncodeVideo, v, [i \in 1 .. made - start |-> start + i])
  IN [coded EXCEPT !.pos = made, !.sps = @ \/ fresh]
Encode(v, from) ==
  LET w == Locate(v, from)
  IN [FoldLeft(EncodeVideo, w, [i \in 1 .. made - w.pos |-> w.pos + i]) EXCEPT !.pos = made]

\* WebrtcPlayerUser::PostFrames, up to its calls of SendPacket.
PostFrames(u) ==
  /\ u \in push /\ calls = <<>> /\ push' = push \ {u}
  /\ IF ~user[u].dtls_done \/ \A i \in 1 .. made : Kinds[i] \notin {"key", "full"}
     THEN UNCHANGED <<user, calls, down>>
     ELSE IF ~user[u].muxer THEN down' = TRUE /\ UNCHANGED <<user, calls>>
     ELSE \E from \in IF user[u].pos = 0 THEN {i \in 1 .. made : Kinds[i] \in {"key", "full"}} ELSE {made} :
            LET v == Encode([user[u] EXCEPT !.out = <<>>], from)
                rtp == [i \in 1 .. Len(v.out) |-> <<"rtp", u, v.out[i][1] % SeqNums, v.out[i][2]>>]
                sr == <<<<"sr", u, 0, 0>>>>
            IN /\ UNCHANGED down
               /\ IF rtp = <<>> THEN calls' = <<>> /\ user' = [user EXCEPT ![u] = v]
                  ELSE \E report \in BOOLEAN :
                         /\ v.reports = 0 => report
                         /\ report => v.reports < MaxReports
                         /\ calls' = IF report THEN <<rtp, sr>> ELSE <<rtp>>
                         /\ user' = [user EXCEPT ![u] = [v EXCEPT !.out = <<>>,
                                        !.reports = IF report THEN @ + 1 ELSE @]]
  /\ UNCHANGED <<users, made, net, in, init>>

\* The calls of SendPacket that PostFrames makes from the publisher's thread.
Submit ==
  /\ calls # <<>> /\ Hand(Head(calls), FALSE) /\ calls' = Tail(calls)
  /\ UNCHANGED <<user, users, made, push, in, init, down>>

\* GetVideo: the whole index is compared with the 16-bit number of the NACK.
\* Mutant: the slot alone decides.
GetSlot(v, n) == v.cache[n % QueueSize]
GetVideo(v, n) ==
  LET p == v.cache[n % QueueSize]
  IN IF p # <<>> /\ p[1] = n THEN p ELSE <<>>

\* Rtpfb::DecodeNack: a packet and those of the 16 after it whose bit is set.
DecodeNack(pid, blp) == [i \in 1 .. Cardinality(blp) + 1 |->
                           (pid + (<<0>> \o SetToSortSeq(blp, <))[i]) % SeqNums]

\* OnRtcp and ProcessRtpfb; before the SRTP contexts exist nothing can be unprotected.
OnRtcp(a, lost) ==
  /\ Receive /\ users[a] # None /\ user[users[a]].muxer
  /\ LET u == users[a]
         found == {i \in DOMAIN lost : GetVideo(user[u], lost[i]) # <<>>}
         order == SetToSortSeq(found, <)
         Again(n) == <<"again", u, n, GetVideo(user[u], n)[2]>>
     IN IF found = {} THEN UNCHANGED net
        ELSE Hand([i \in 1 .. Cardinality(found) |-> Again(lost[order[i]])], TRUE)
  /\ UNCHANGED <<user, users, made, push, calls, init, down>>

-----------------------------------------------------------------------------
(* The UDP loop's tasks and writes.                                        *)

RunTask ==
  /\ init = None /\ srv.tasks > 0
  /\ srv' = SendInLoop([srv EXCEPT !.tasks = @ - 1])
  /\ UNCHANGED <<user, users, made, push, calls, handed, wire, in, init, stray, down>>

\* OnWrite sends n datagrams until the kernel takes no more (and reports again when it
\* does) or all are gone.  Once writing is enabled the loop also reports it with every
\* datagram that arrives, so that WriteComplete may come with nothing sent.
OnWrite(n) ==
  /\ init = None /\ srv.writing
  /\ wire' = wire \o SubSeq(srv.buffer, 1, n)
  /\ LET rest == [srv EXCEPT !.buffer = SubSeq(@, n + 1, Len(@)), !.edge = FALSE]
     IN srv' = IF rest.buffer = <<>> THEN WriteComplete(rest) ELSE [rest EXCEPT !.edge = TRUE]
  /\ stray' = (stray \/ (n = Len(srv.buffer) /\ srv.tasks > 0))
  /\ UNCHANGED <<user, users, made, push, calls, handed, in, init, down>>

Write == srv.edge /\ OnWrite(Len(srv.buffer))
WriteSome == srv.edge /\ \E n \in 0 .. Len(srv.buffer) - 1 : OnWrite(n)
StrayWrite == ~srv.edge /\ srv.buffer = <<>> /\ OnWrite(0)

-----------------------------------------------------------------------------
NewUser == [st |-> "new", addr |-> None, dtls |-> 0, dtls_done |-> FALSE, again |-> FALSE,
            muxer |-> FALSE, seq |-> 0, sps |-> FALSE, sentsps |-> FALSE, pos |-> 0,
            cache |-> [i \in 0 .. QueueSize - 1 |-> <<>>], log |-> <<>>, out |-> <<>>, reports |-> 0]

Init ==
  /\ user = [u \in Users |-> NewUser] /\ users = [a \in Addrs |-> None]
  /\ made = 0 /\ push = {} /\ calls = <<>>
  /\ srv = [sending |-> FALSE, outs |-> <<>>, held |-> <<>>, waiting |-> <<>>, tasks |-> 0,
            buffer |-> <<>>, writing |-> FALSE, edge |-> FALSE]
  /\ handed = <<>> /\ wire = <<>> /\ in = 0 /\ init = None /\ stray = FALSE /\ down = FALSE

Next ==
  /\ ~down
  /\ \/ \E u \in Users : OnRequest(u) \/ Register(u) \/ PostFrames(u) \/ \E a \in Addrs : OnStun(u, a)
     \/ \E a \in Addrs : OnDtls(a) \/ \E pid \in 0 .. SeqNums - 1, blp \in SUBSET Blp : OnRtcp(a, DecodeNack(pid, blp))
     \/ InitMuxer \/ AddPacket \/ Submit \/ RunTask \/ Write \/ WriteSome \/ StrayWrite

\* The threads run on, and the kernel ends up taking what is written.
Fairness ==
  /\ WF_vars(~down /\ (InitMuxer \/ RunTask)) /\ WF_vars(~down /\ Submit) /\ SF_vars(~down /\ Write)

Spec == Init /\ [][Next]_vars
FairSpec == Spec /\ Fairness

-----------------------------------------------------------------------------
(* Properties.                                                             *)

TypeOK ==
  /\ users \in [Addrs -> Users \cup {None}] /\ init \in Users \cup {None}
  /\ made \in 0 .. Len(Kinds) /\ push \subseteq Users /\ in \in 0 .. MaxIn
  /\ srv.tasks \in Nat /\ {srv.sending, srv.writing, srv.edge, stray, down} \subseteq BOOLEAN

\* Every packet handed to SendPacket, from whichever thread, leaves once and in the
\* order of the calls, as long as no write-complete comes between SendPacket and the
\* task it queues (UdpSocket.cpp:114-119 calls back with nothing sent).
LeavesOnceInOrder ==
  ~stray => /\ srv.tasks <= 1 /\ (srv.tasks = 1 => srv.sending)
            /\ wire \o srv.buffer \o (IF srv.tasks = 1 THEN srv.outs ELSE <<>>) \o srv.waiting
                 = [i \in 1 .. Len(handed) |-> i]

\* The socket's list points into packets that only sending_ keeps alive: whatever
\* callbacks come between, what is still to be sent is still held.
BufferHeld == TypeOK /\ Range(srv.buffer) \subseteq Range(srv.held)

\* A receiver that reports one of the last QueueSize packets of its stream lost is sent
\* that packet, never another; from sequence number 2^16 on it gets nothing at all.
NackAnswered ==
  \A u \in Users : \A i \in DOMAIN user[u].log :
    i + QueueSize > Len(user[u].log) =>
      LET p == user[u].log[i]
          q == GetVideo(user[u], p[1] % SeqNums)
      IN IF p[1] < SeqNums THEN q = p ELSE q = <<>>

\* The first packet of a stream is the SPS and PPS (or a key frame that carries them)
\* and a key frame follows it, unless DTLS ended twice: then the muxer forgets them.
DecoderPrimed ==
  \A u \in Users : LET log == user[u].log
                   IN log # <<>> /\ ~user[u].again =>
                        \/ log[1][2] = 0 /\ Len(log) > 1 /\ Kinds[log[2][2]] = "key"
                        \/ log[1][2] # 0 /\ Kinds[log[1][2]] = "full"

\* What waits behind a send goes out: no order of write-complete callbacks, queued tasks
\* and sends from other threads leaves packets behind.
WaitingDrains == srv.waiting # <<>> ~> (srv.waiting = <<>> \/ down)

=============================================================================
