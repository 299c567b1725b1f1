------------------------------ MODULE MediaDemux ------------------------------
(***************************************************************************)
(* What the multiplexers read out of a published packet: VideoDemux and    *)
(* AudioDemux (mmedia/demux).                                              *)
(*                                                                         *)
(* A packet is the FLV payload of an RTMP message.  A video packet carries *)
(* a sequence header (the SPS, the PPS and the width of the NAL length     *)
(* fields) or a frame: NAL units, each with its type and its size.  An     *)
(* audio packet carries a sequence header or one frame.  A frame may be    *)
(* cut short (its last NAL longer than what is left of the packet).  A     *)
(* publisher puts lengths before its units, as FLV has them; what the      *)
(* demuxer makes of a length it takes for a start code is modelled.        *)
(***************************************************************************)
EXTENDS Naturals, Integers, Sequences, SequencesExt

\* NAL unit types (AVTypes.h).
Slice == 1
IDR == 5
SPS == 7
PPS == 8
AUD == 9

\* No parameter set has been read.
NoSet == "none"

\* Fields of a packet that the demuxers and the multiplexers look at.
VideoHeader(set, unit, bad) ==
    [media |-> "video", header |-> TRUE, key |-> TRUE, set |-> set, unit |-> unit, bad |-> bad,
     nals |-> <<>>, b |-> FALSE, cst |-> 0, size |-> 0]
VideoFrame(key, nals, b, cst, bad) ==
    [media |-> "video", header |-> FALSE, key |-> key, set |-> NoSet, unit |-> 0, bad |-> bad,
     nals |-> nals, b |-> b, cst |-> cst, size |-> 0]
AudioPacket(codec, header, size) ==
    [media |-> codec, header |-> header, key |-> FALSE, set |-> NoSet, unit |-> 0, bad |-> "no",
     nals |-> <<>>, b |-> FALSE, cst |-> 0, size |-> size]

\* The members of a new VideoDemux; unit is nalu_unit_length_, format payload_format_.
NewVideoDemux ==
    [unit |-> 0, format |-> "unknown", sps |-> NoSet, pps |-> NoSet, cst |-> 0,
     aud |-> FALSE, idr |-> FALSE, spspps |-> FALSE, bframe |-> FALSE]

\* VideoDemux::Reset: what was seen in earlier frames is forgotten.
ResetDemux(d) == [d EXCEPT !.aud = FALSE, !.idr = FALSE, !.spspps = FALSE, !.bframe = FALSE]

\* DecodeAVCSeqHeader.  The width is taken first, then the SPS, then the PPS;
\* an error leaves what was read before it.
DecodeAVCSeqHeader(d, p) ==
    [d |-> CASE p.bad = "sps" -> [d EXCEPT !.unit = p.unit]
             [] p.bad = "pps" -> [d EXCEPT !.unit = p.unit, !.sps = p.set]
             [] OTHER -> [d EXCEPT !.unit = p.unit, !.sps = p.set, !.pps = p.set],
     ret |-> IF p.bad = "no" THEN 0 ELSE -1,
     outs |-> <<>>]

\* CheckNaluType and CheckBFrame on every unit read.
CheckNaluTypes(d, nals, b) ==
    LET seen(types) == \E i \in DOMAIN nals : nals[i].type \in types
    IN  [d EXCEPT !.idr = @ \/ seen({IDR}), !.aud = @ \/ seen({AUD}),
                  !.spspps = @ \/ seen({SPS, PPS}),
                  !.bframe = @ \/ (b /\ seen({Slice, IDR}))]

\* A one-byte length is read through a signed char: from 128 on it is huge.
Readable(d, n) == d.unit # 0 \/ n < 128

\* DecodeAVCNaluIAvcc: unit after unit until the packet ends or a length does
\* not fit what is left.
DecodeAVCNaluIAvcc(d, p) ==
    LET wrong == {i \in DOMAIN p.nals : \/ ~Readable(d, p.nals[i].size)
                                        \/ p.bad = "cut" /\ i = Len(p.nals)}
        n == IF wrong = {} THEN Len(p.nals) ELSE (CHOOSE i \in wrong : \A j \in wrong : i <= j) - 1
        outs == SubSeq(p.nals, 1, n)
    IN  [d |-> CheckNaluTypes(d, outs, p.b), ret |-> IF wrong = {} THEN 0 ELSE -1, outs |-> outs]

\* A length of four bytes that reads 00 00 01 with what is beside it: of one byte,
\* or of 256 to 511.
StartLike(d, nal) == d.unit = 3 /\ (nal.size = 1 \/ nal.size \in 256..511)

\* FindAnnexbNalu, again and again: where in the packet the code for each start code
\* ends, and the type behind it; at is the packet's size.
StartCodes(d, nals) ==
    LET code(at, nal) == IF nal.size = 1 THEN [start |-> at + 4, type |-> nal.type]
                         ELSE [start |-> at + 3, type |-> nal.size % 32]
        scan(acc, nal) ==
            [at |-> acc.at + d.unit + 1 + nal.size,
             codes |-> IF StartLike(d, nal) THEN Append(acc.codes, code(acc.at, nal)) ELSE acc.codes]
    IN  FoldLeft(scan, [at |-> 0, codes |-> <<>>], nals)

\* DecodeAVCNaluAnnexb: a unit per start code, from the beginning of the packet on
\* and as long as from one start code to the next, so that each begins with the
\* bytes of a length (type 0) and the last bytes of the packet are in none.
AnnexbUnits(d, codes, size) ==
    LET end(k) == IF k < Len(codes) THEN codes[k + 1].start ELSE size
    IN  [d |-> CheckNaluTypes(d, codes, FALSE),
         ret |-> IF codes = <<>> THEN -1 ELSE 0,
         outs |-> [k \in DOMAIN codes |-> [type |-> 0, size |-> end(k) - codes[k].start]]]
CodesWithin(d, codes, size) == AnnexbUnits(d, SelectSeq(codes, LAMBDA c : c.start < size), size)
AnnexbIn(d, found, cut) == CodesWithin(d, found.codes, IF cut THEN found.at - 1 ELSE found.at)
DecodeAVCNaluAnnexb(d, p) == AnnexbIn(d, StartCodes(d, p.nals), p.bad = "cut")

\* DecodeAvcNalu: the first frame that can be read either way decides how all are
\* read from then on; units read before an error stay in the list.
Fallback(avcc, annexb) ==
    IF annexb.ret = 0 THEN [annexb EXCEPT !.d.format = "annexb", !.outs = avcc.outs \o @]
    ELSE annexb
Detected(avcc, p) ==
    IF avcc.ret = 0 THEN [avcc EXCEPT !.d.format = "avcc"]
    ELSE Fallback(avcc, DecodeAVCNaluAnnexb(avcc.d, p))
DecodeAvcNalu(d, p) ==
    CASE d.format = "avcc" -> DecodeAVCNaluIAvcc(d, p)
      [] d.format = "annexb" -> DecodeAVCNaluAnnexb(d, p)
      [] d.format = "unknown" -> Detected(DecodeAVCNaluIAvcc(d, p), p)

\* VideoDemux::OnDemux.
OnDemux(d, p) ==
    LET timed == [d EXCEPT !.cst = p.cst]
    IN  IF p.header THEN DecodeAVCSeqHeader(timed, p) ELSE DecodeAvcNalu(timed, p)

\* AudioDemux::OnDemux with DemuxAAC and DemuxMP3; ok is aac_ok_.
OnDemuxAudio(ok, p) ==
    CASE p.media = "aac" /\ p.header -> [ok |-> TRUE, ret |-> 0, outs |-> <<>>]
      [] p.media = "aac" /\ ~p.header /\ ~ok -> [ok |-> ok, ret |-> -1, outs |-> <<>>]
      [] OTHER -> [ok |-> ok, ret |-> 0, outs |-> <<p.size>>]
================================================================================
