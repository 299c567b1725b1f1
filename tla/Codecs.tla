-------------------------------- MODULE Codecs --------------------------------
(***************************************************************************)
(* The sequential parts below the server's threads: the multiplexers fed   *)
(* by one publisher, the time stamps, the byte buffer, the command         *)
(* encoding and one HTTP connection.  They do not share state; a behaviour *)
(* exercises one of them.                                                  *)
(***************************************************************************)
EXTENDS TsMuxer, RtpMuxer, TimeCorrector, MsgBuffer, AmfCodec, HttpContext

CONSTANTS Packets,      \* packets a publisher may send
          MaxFeed       \* bound: packets of one publisher

VARIABLES job,          \* the part a behaviour exercises
          fed           \* packets published
vars == <<job, fed, tsVars, rtpVars, timeVars, bufVars, amfVars, httpVars>>

Init ==
    /\ job \in {"media", "time", "buffer", "amf", "http"}
    /\ fed = 0
    /\ TsInit
    /\ RtpInit
    /\ TimeInit
    /\ BufferInit
    /\ IF job = "amf" THEN AmfInit ELSE message = <<>> /\ lost = 0
    /\ \E r \in Roles : (job = "http" \/ r = "server") /\ cn = NewConnection(r)

\* Stream::AddPacket hands a packet to the HLS muxer (ProcessHls); a WebRTC
\* player's RtpMuxer gets the video packets of the same stream.  A publisher
\* sends the sequence header before the first frame.
Publish(p) ==
    /\ job = "media" /\ fed < MaxFeed
    /\ p.media = "video" => p.header \/ ts.video_pid # NoPid
    /\ fed' = fed + 1
    /\ OnPacket(p, fed)
    /\ IF p.media = "video" THEN RtpEncodeVideo(p) ELSE UNCHANGED rtpVars
    /\ UNCHANGED <<job, timeVars, bufVars, amfVars, httpVars>>

\* A WebRTC player of any stream of this server is answered.
Stun ==
    /\ job = "media"
    /\ StunAnswer
    /\ UNCHANGED <<job, fed, rtpVars, timeVars, bufVars, amfVars, httpVars>>

Correct ==
    /\ job = "time"
    /\ TimeNext
    /\ UNCHANGED <<job, fed, tsVars, rtpVars, bufVars, amfVars, httpVars>>

Buffer ==
    /\ job = "buffer"
    /\ BufferNext
    /\ UNCHANGED <<job, fed, tsVars, rtpVars, timeVars, amfVars, httpVars>>

Command ==
    /\ job = "amf"
    /\ AmfNext
    /\ UNCHANGED <<job, fed, tsVars, rtpVars, timeVars, bufVars, httpVars>>

\* One end of an HTTP connection.
Http ==
    /\ job = "http"
    /\ HttpNext
    /\ UNCHANGED <<job, fed, tsVars, rtpVars, timeVars, bufVars, amfVars>>

Next == (\E p \in Packets : Publish(p)) \/ Stun \/ Correct \/ Buffer \/ Command \/ Http

Spec == Init /\ [][Next]_vars
================================================================================
