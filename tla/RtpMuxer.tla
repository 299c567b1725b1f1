------------------------------- MODULE RtpMuxer -------------------------------
(***************************************************************************)
(* What a WebRTC player is sent: RtpMuxer with RtpH264 and RtpOpus         *)
(* (mmedia/rtp).  An RTP packet is a record: its sequence number, its      *)
(* marker, its form ("single", "stap": SPS and PPS together, "fua": a      *)
(* fragment of a unit) and what it carries.                                *)
(***************************************************************************)
EXTENDS MediaDemux, SequencesExt

CONSTANTS MaxPayload,   \* kRtpMaxPayloadSize
          SeqSize       \* sequence_ goes out modulo this (16 bits)

VARIABLES
    mux,        \* the RtpMuxer of one player
    sent,       \* the RTP packets of the last video packet
    units,      \* the NAL units they have to carry
    player      \* the receiver: whether it has got parameter sets, whether the first
                \* IDR unit came before any were known; a frame came damaged
rtpVars == <<mux, sent, units, player>>

HeaderSize == 12

NewRtpMuxer == [demux |-> NewVideoDemux, sent_sps_pps |-> FALSE, sequence |-> 0]

\* EncodeSingle, EncodeSpsPps: one packet; marker as asked.
Packet(seq, form, nal, from, len, start, end, marker) ==
    [seq |-> seq % SeqSize, form |-> form, nal |-> nal, from |-> from, len |-> len,
     start |-> start, end |-> end, marker |-> marker]

EncodeSingle(seq, nal, last) ==
    <<Packet(seq + 1, "single", nal, 0, nal.size, TRUE, TRUE, last)>>

EncodeSpsPps(seq, d) ==
    IF d.sps = NoSet /\ d.pps = NoSet THEN <<>>
    ELSE <<Packet(seq + 1, "stap", [type |-> SPS, size |-> 0, sps |-> d.sps, pps |-> d.pps],
                  0, 0, TRUE, TRUE, FALSE)>>

\* A plausible slip: the two bytes of the FU header are not reckoned with.
FuaRoomNoHeader == MaxPayload - HeaderSize

\* EncodeFua: the unit without its first byte, in fragments that fill a packet;
\* start and end are the S and E bits.
FuaRoom == MaxPayload - HeaderSize - 2
EncodeFua(seq, nal) ==
    LET bytes == nal.size - 1
        n == (bytes + FuaRoom - 1) \div FuaRoom
        left(i) == bytes - (i - 1) * FuaRoom
    IN  [i \in 1..n |->
           Packet(seq + i, "fua", nal, 1 + (i - 1) * FuaRoom,
                  IF left(i) > FuaRoom THEN FuaRoom ELSE left(i),
                  i = 1, i > 1 /\ left(i) <= FuaRoom, left(i) <= FuaRoom)]

\* RtpH264::Encode: unit by unit; a unit too long for a packet is fragmented.
EncodeUnit(acc, i, ins) ==
    LET seq == acc.seq
        out == IF HeaderSize + ins[i].size > MaxPayload THEN EncodeFua(seq, ins[i])
               ELSE EncodeSingle(seq, ins[i], i = Len(ins))
    IN  [seq |-> seq + Len(out), packets |-> acc.packets \o out]
Encode(seq, ins) ==
    FoldLeft(LAMBDA acc, i : EncodeUnit(acc, i, ins), [seq |-> seq, packets |-> <<>>],
             [i \in 1..Len(ins) |-> i])

HasSets(k) == k.form = "stap" \/ k.nal.type \in {SPS, PPS}

\* RtpMuxer::EncodeVideo: what the demuxer saw in earlier frames is forgotten
\* first; a frame with a B slice is dropped; the parameter sets go out once,
\* before the first IDR unit, unless the publisher sends its own.
RtpEncodeVideo(p) ==
    LET r == OnDemux(ResetDemux(mux.demux), p)
        dropped == r.ret = -1 \/ p.header \/ r.d.bframe
        needs == ~mux.sent_sps_pps /\ r.d.idr /\ ~r.d.spspps
        sets == IF needs THEN EncodeSpsPps(mux.sequence, r.d) ELSE <<>>
        out == Encode(mux.sequence + Len(sets), r.outs)
    IN  IF dropped
        THEN /\ mux' = [mux EXCEPT !.demux = r.d]
             /\ sent' = <<>>
             /\ units' = <<>>
             /\ player' = [player EXCEPT !.damaged = @ \/ p.bad # "no"]
        ELSE /\ mux' = [demux |-> r.d, sent_sps_pps |-> mux.sent_sps_pps \/ needs \/ r.d.spspps,
                        sequence |-> out.seq]
             /\ sent' = sets \o out.packets
             /\ units' = IF r.d.format = "annexb" THEN r.outs ELSE p.nals
             /\ player' = [sets |-> player.sets \/ \E i \in DOMAIN sent' : HasSets(sent'[i]),
                           blind |-> player.blind \/ (r.d.idr /\ r.d.sps = NoSet /\ r.d.pps = NoSet),
                           damaged |-> player.damaged \/ p.bad # "no"]

RtpInit ==
    /\ mux = NewRtpMuxer
    /\ sent = <<>>
    /\ units = <<>>
    /\ player = [sets |-> FALSE, blind |-> FALSE, damaged |-> FALSE]

--------------------------------------------------------------------------------
(* A receiver, for the property.                                           *)

\* Bytes of an RTP packet, its header included.
RtpSize(k) == HeaderSize + (IF k.form = "fua" THEN 2 ELSE 0) + k.len

\* The units a receiver makes of the packets (a set pair is not one of the
\* frame's units): a single packet is a unit; a fragment run begins with S, ends
\* with E, and its bytes follow one another.  <<>> stands for what cannot be.
Depacketize(packets) ==
    FoldLeft(LAMBDA acc, k :
               CASE k.form = "stap" -> acc
                 [] k.form = "single" -> [acc EXCEPT !.done = Append(@, k.nal),
                                                     !.bad = @ \/ acc.open # 0]
                 [] k.form = "fua" /\ k.start -> [acc EXCEPT !.open = 1 + k.len,
                                                             !.bad = @ \/ acc.open # 0 \/ k.end]
                 [] OTHER -> [acc EXCEPT !.bad = @ \/ acc.open = 0 \/ k.from # acc.open
                                                   \/ (k.end /\ k.from + k.len # k.nal.size),
                                         !.open = IF k.end THEN 0 ELSE @ + k.len,
                                         !.done = IF k.end THEN Append(@, k.nal) ELSE @],
             [done |-> <<>>, open |-> 0, bad |-> FALSE], packets)

\* The packets of a frame fit a datagram, are numbered without a gap up to the
\* last number used, give a receiver the frame's NAL units whole and in order
\* (RtpH264::Encode, EncodeFua), and the last one is marked.  They are the units the
\* publisher sent, unless the demuxer took the first frame for Annex B, which it
\* does of a damaged one only.  Parameter sets reach a player before an IDR unit
\* does; not if the first one came when none were known: what goes out once
\* (sent_sps_pps_) is then nothing, and later ones are never sent.
NalsReassemble ==
    LET r == Depacketize(sent)
        n == Len(sent)
    IN  /\ r.done = units /\ ~r.bad /\ r.open = 0
        /\ \A i \in 1..n : RtpSize(sent[i]) <= MaxPayload
        /\ \A i \in 1..n : sent[i].seq = (mux.sequence - (n - i)) % SeqSize
        /\ n > 0 => sent[n].marker
        /\ (\E i \in DOMAIN units : units[i].type = IDR) => player.sets \/ player.blind
        /\ mux.demux.format = "annexb" => player.damaged
================================================================================
