-------------------------------- MODULE TsMuxer --------------------------------
(***************************************************************************)
(* The MPEG-TS side of HLS: HLSMuxer::OnPacket with TsEncoder,             *)
(* VideoEncoder, AudioEncoder and the PAT and PMT writers (mmedia/mpegts). *)
(*                                                                         *)
(* A TS packet is a record: its PID, its error and start flags, its        *)
(* continuity counter, the length of its adaptation field (-1: none), the  *)
(* PES header (NoPes: none) and the pieces of payload, <<kind, what, from, *)
(* length>>.                                                               *)
(* What the bytes of a piece are does not matter, where they end up does.  *)
(***************************************************************************)
EXTENDS MediaDemux, FiniteSets, SequencesExt

CONSTANTS MinFragment, MaxFragment   \* min_fragment_size_ and max_fragment_size_ of HLSMuxer

VARIABLES
    ts,         \* the muxer: TsEncoder with its encoders, and the current fragment
    written,    \* the TS packets the last OnPacket wrote, in order
    unit,       \* the pieces they have to carry: one access unit or audio frame
    crcTable,   \* what __crc32_MPEG_table was made for: "none", "mpeg", "ieee"
    rx          \* a receiver that plays the current fragment from its beginning
tsVars == <<ts, written, unit, crcTable, rx>>

NoPid == 57344              \* 0xe000: no stream of this kind is known
PatPid == 0
PmtPid == 4097
VideoPid == 256
AacPid == 257
NoPes == [len |-> -1, head |-> 0, pts |-> 0, dts |-> 0]

NewFragment == [dur |-> 0, start |-> -1, sps |-> NoSet, pps |-> NoSet, appended |-> FALSE]

NewTsMuxer ==
    [audio_pid |-> NoPid, video_pid |-> NoPid,     \* TsEncoder, and the encoders' pid_
     programs |-> {}, pcr_pid |-> NoPid,           \* PmtWriter
     cc |-> [p \in {"pat", "pmt", "video", "audio"} |-> 15],   \* cc_, -1 & 0xf
     demux |-> NewVideoDemux, aac_ok |-> FALSE,
     frag |-> NewFragment, open |-> FALSE,         \* current_fragment_
     closed |-> {NewFragment}]                     \* parameter sets of the fragments to use again

--------------------------------------------------------------------------------
(* PES and TS packets.                                                     *)

\* The second and third byte of a packet: pid_ >> 8 with the start flag or-ed in, and
\* pid_.  Of 16 bits the lower 13 are the PID, the others the flags of an error,
\* of a start and of priority.
TsHeader(pid, start) ==
    [pid |-> pid % 8192, tei |-> pid >= 32768, start |-> start \/ (pid \div 16384) % 2 = 1]

\* The inner loop of WriteVideoPes and WriteAudioPes: len bytes are copied
\* from the front of the pieces; a piece that does not fit is split.
RECURSIVE TakePieces(_, _)
TakePieces(pieces, len) ==
    IF len = 0 \/ pieces = <<>> THEN [got |-> <<>>, rest |-> pieces]
    ELSE LET p == Head(pieces)
         IN  IF p[4] <= len
             THEN LET more == TakePieces(Tail(pieces), len - p[4])
                  IN  [got |-> <<p>> \o more.got, rest |-> more.rest]
             ELSE [got |-> <<[p EXCEPT ![4] = len]>>,
                   rest |-> <<[p EXCEPT ![3] = @ + len, ![4] = @ - len]>> \o Tail(pieces)]

\* Length of the adaptation field: flags and PCR on the first packet of a key
\* frame, grown by the stuffing; otherwise a field of the stuffing alone.
AdaptationLen(pcr, stuffing) ==
    CASE pcr -> 7 + stuffing
      [] ~pcr /\ stuffing > 0 -> stuffing - 1
      [] OTHER -> -1

\* The header a PES starts with: 5 or 10 bytes of time stamps, a length that is
\* 0 when it does not fit 16 bits.
PesHeader(size, pts, dts) ==
    LET header_len == IF pts = dts THEN 5 ELSE 10
        len == size + header_len + 3
    IN  [len |-> IF len > 65535 THEN 0 ELSE len, head |-> 9 + header_len, pts |-> pts, dts |-> dts]

\* WriteVideoPes and WriteAudioPes: packets of 188 bytes until the payload is out.
RECURSIVE WritePes(_, _, _, _, _)
WritePes(pid, cc, pieces, left, pes) ==
    IF left <= 0 \/ pieces = <<>> THEN [cc |-> cc, packets |-> <<>>]
    ELSE LET pcr == pes.key /\ pes.h # NoPes
             header_len == 4 + (IF pcr THEN 8 ELSE 0) + pes.h.head
             len == IF 188 - header_len > left THEN left ELSE 188 - header_len
             taken == TakePieces(pieces, len)
             packet == TsHeader(pid, pes.h # NoPes)
                       @@ [cc |-> (cc + 1) % 16,
                           af |-> AdaptationLen(pcr, 188 - header_len - len),
                           pes |-> pes.h, data |-> taken.got]
             more == WritePes(pid, (cc + 1) % 16, taken.rest, left - len, [key |-> FALSE, h |-> NoPes])
         IN  [cc |-> more.cc, packets |-> <<packet>> \o more.packets]

PiecesLen(pieces) == FoldSeq(LAMBDA p, n : n + p[4], 0, pieces)

--------------------------------------------------------------------------------
(* Tables.                                                                 *)

\* PSIWriter: WriteSection and PushSection.  A section of these sizes takes
\* one packet, filled up with 0xff; its CRC is right if the shared table was
\* made for it.
Section(pid, cc, table, listed) ==
    TsHeader(pid, TRUE)
    @@ [cc |-> (cc + 1) % 16, af |-> -1, pes |-> NoPes,
        data |-> <<<<"table", [crc |-> table # "ieee", listed |-> listed], 0, 184>>>>]

\* TsEncoder::WritePatPmt: nothing until both an audio and a video stream are known.
WritePatPmt(m, table) ==
    IF m.audio_pid = NoPid \/ m.video_pid = NoPid
    THEN [m |-> m, packets |-> <<>>]
    ELSE [m |-> [m EXCEPT !.cc.pat = (@ + 1) % 16, !.cc.pmt = (@ + 1) % 16],
          packets |-> <<Section(PatPid, m.cc.pat, table, {PmtPid}),
                        Section(PmtPid, m.cc.pmt, table, m.programs)>>]

\* TsEncoder::SetStreamType through HLSMuxer::ParseCodec: a stream not listed
\* before is added to the PMT, and the tables are written again.
SetStreamType(m, p, table) ==
    LET set == CASE p.media = "video" /\ m.video_pid = NoPid ->
                      [m EXCEPT !.video_pid = VideoPid, !.pcr_pid = VideoPid,
                                !.programs = @ \cup {VideoPid}]
                 [] p.media = "aac" /\ m.audio_pid = NoPid ->
                      [m EXCEPT !.audio_pid = AacPid, !.programs = @ \cup {AacPid}]
                 [] OTHER -> m
    IN  IF set = m THEN [m |-> m, packets |-> <<>>] ELSE WritePatPmt(set, table)

--------------------------------------------------------------------------------
(* Frames.                                                                 *)

\* Fragment::AppendTimeStamp.
AppendTimeStamp(f, dts) ==
    LET start == IF f.start = -1 \/ dts < f.start THEN dts ELSE f.start
    IN  [f EXCEPT !.start = start, !.dur = dts - start]

StartCode == <<"code", "nal", 0, 3>>

\* A plausible slip: a fragment that is used again is taken to have them.
NeedsNewSets(d, f) == ~d.spspps /\ (f.sps # d.sps \/ f.pps # d.pps)

\* EncodeAvc: the condition under which an IDR unit is preceded by SPS and PPS.
NeedsSets(d, f) ==
    /\ ~d.spspps
    /\ \/ f.sps # d.sps
       \/ f.pps # d.pps
       \/ ~f.appended

\* EncodeAvc: the pieces of one NAL unit, and the fragment after it.
AvcUnit(d, acc, nal) ==
    LET sets == nal.type = IDR /\ NeedsSets(d, acc.f)
        set(name, kind) == IF name = NoSet THEN <<>> ELSE <<StartCode, <<kind, name, 0, 9>>>>
    IN  [f |-> IF sets THEN [acc.f EXCEPT !.appended = TRUE,
                                          !.sps = IF d.sps = NoSet THEN @ ELSE d.sps,
                                          !.pps = IF d.pps = NoSet THEN @ ELSE d.pps]
               ELSE acc.f,
         pieces |-> acc.pieces
                    \o (IF sets THEN set(d.sps, "sps") \o set(d.pps, "pps") ELSE <<>>)
                    \o <<StartCode, <<"unit", nal.type, 0, nal.size>>>>]

\* EncodeAvc: an access unit delimiter unless the publisher sends its own.
EncodeAvc(m, outs) ==
    FoldLeft(LAMBDA acc, nal : AvcUnit(m.demux, acc, nal),
             [f |-> m.frag,
              pieces |-> IF m.demux.aud THEN <<>> ELSE <<StartCode, <<"unit", AUD, 0, 2>>>>],
             outs)

\* VideoEncoder::EncodeVideo.
EncodeVideo(m, p, dts) ==
    LET r == OnDemux(m.demux, p)
        read == [m EXCEPT !.demux = r.d]
        au == EncodeAvc([read EXCEPT !.frag = AppendTimeStamp(@, dts)], r.outs)
        pts == dts * 90 + r.d.cst * 90
        pes == WritePes(m.video_pid, m.cc.video, au.pieces, PiecesLen(au.pieces),
                        [key |-> p.key, h |-> PesHeader(PiecesLen(au.pieces), pts, dts * 90)])
    IN  IF r.ret = -1 \/ p.header THEN [m |-> read, packets |-> <<>>, unit |-> <<>>]
        ELSE [m |-> [read EXCEPT !.frag = au.f, !.cc.video = pes.cc],
              packets |-> pes.packets, unit |-> au.pieces]

\* EncodeAAC: a frame longer than 0x1fff is refused, otherwise it follows an
\* ADTS header whose length field has 13 bits.
Adts(size) == <<"adts", (7 + size) % 8192, 0, 7>>

\* AudioEncoder::EncodeAudio with EncodeAAC and EncodeMP3.
EncodeAudio(m, p, dts) ==
    LET r == OnDemuxAudio(m.aac_ok, p)
        read == [m EXCEPT !.aac_ok = r.ok]
        pieces == IF p.media = "aac" THEN <<Adts(p.size), <<"frame", "aac", 0, p.size>>>>
                  ELSE <<<<"frame", "mp3", 0, p.size>>>>
        pes == WritePes(m.audio_pid, m.cc.audio, pieces, PiecesLen(pieces),
                        [key |-> FALSE, h |-> PesHeader(PiecesLen(pieces), dts * 90, dts * 90)])
        timed == [read EXCEPT !.frag = AppendTimeStamp(@, dts)]
    IN  CASE r.ret = -1 \/ p.header -> [m |-> read, packets |-> <<>>, unit |-> <<>>]
          [] p.media = "aac" /\ p.size > 8191 -> [m |-> timed, packets |-> <<>>, unit |-> <<>>]
          [] OTHER -> [m |-> [timed EXCEPT !.cc.audio = pes.cc],
                       packets |-> pes.packets, unit |-> pieces]

\* HLSMuxer::OnPacket, first part: the current fragment ends at a key frame once
\* it is long enough, or when it is too long; a new one begins with the tables.
\* A fragment used again keeps the parameter sets it wrote (Fragment::Reset).
Cuts(m, p) == m.open /\ (\/ p.key /\ m.frag.dur >= MinFragment
                         \/ m.frag.dur > MaxFragment)
StartFragment(m, p, kept) ==
    IF m.open /\ ~Cuts(m, p) THEN [m |-> m, packets |-> <<>>]
    ELSE WritePatPmt([m EXCEPT !.open = TRUE,
                               !.closed = @ \cup {[NewFragment EXCEPT !.sps = m.frag.sps, !.pps = m.frag.pps]},
                               !.frag = kept],
                     crcTable)

--------------------------------------------------------------------------------
(* A receiver, for the properties: it starts with each fragment, follows   *)
(* the counters, learns the tables and joins the pieces of a PES.  A packet*)
(* with the error flag it drops.                                           *)

Pids == {PatPid, PmtPid, VideoPid, AacPid}

\* last[p]: the counter of the last packet of p (-1: none yet).
NewReceiver == [last |-> [p \in Pids |-> -1], gap |-> FALSE,
                tables |-> {}, listed |-> {}, sets |-> {}, crc |-> TRUE]

\* A new fragment is played without what an earlier one said, the counters go on.
Restarted(r) == [NewReceiver EXCEPT !.last = r.last, !.gap = r.gap]

ReceiveOne(r, k) ==
    LET said == {k.data[i] : i \in DOMAIN k.data}
        tables == {d \in said : d[1] = "table"}
    IN  IF k.tei THEN r
        ELSE [r EXCEPT !.gap = @ \/ (r.last[k.pid] # -1 /\ k.cc # (r.last[k.pid] + 1) % 16),
                       !.last[k.pid] = k.cc,
                       !.tables = IF tables = {} THEN @ ELSE @ \cup {k.pid},
                       !.listed = @ \cup UNION {d[2].listed : d \in tables},
                       !.sets = @ \cup {<<d[1], d[2]>> : d \in {e \in said : e[1] \in {"sps", "pps"}}},
                       !.crc = @ /\ \A d \in tables : d[2].crc]

\* The pieces a run of packets carries, split pieces joined again.
Joined(packets) ==
    FoldLeft(LAMBDA acc, p :
               IF p[3] # 0 /\ acc # <<>> /\ acc[Len(acc)] = <<p[1], p[2], 0, p[3]>>
               THEN [acc EXCEPT ![Len(acc)][4] = @ + p[4]]
               ELSE Append(acc, p),
             <<>>, FlattenSeq([i \in DOMAIN packets |-> packets[i].data]))

\* Bytes of a TS packet.
PacketSize(k) == 4 + (IF k.af >= 0 THEN 1 + k.af ELSE 0) + k.pes.head + PiecesLen(k.data)

--------------------------------------------------------------------------------

TsInit ==
    /\ ts = NewTsMuxer
    /\ written = <<>>
    /\ unit = <<>>
    /\ crcTable = "none"
    /\ rx = NewReceiver

\* HLSMuxer::OnPacket.  A fragment that left the window comes back with the
\* parameter sets it once wrote; kept = NewFragment is one made new.
OnPacket(p, dts) ==
    \E kept \in ts.closed :
        LET begun == StartFragment(ts, p, kept)
            codec == IF p.header THEN SetStreamType(begun.m, p, crcTable)
                     ELSE [m |-> begun.m, packets |-> <<>>]
            out == IF p.media = "video" THEN EncodeVideo(codec.m, p, dts)
                   ELSE EncodeAudio(codec.m, p, dts)
            all == begun.packets \o codec.packets \o out.packets
        IN  /\ ts' = out.m
            /\ written' = all
            /\ unit' = out.unit
            /\ crcTable' = IF begun.packets \o codec.packets = <<>> \/ crcTable # "none"
                           THEN crcTable ELSE "mpeg"
            /\ rx' = FoldLeft(ReceiveOne, IF Cuts(ts, p) THEN Restarted(rx) ELSE rx, all)

\* Stun::Encode: the fingerprint of an answer is TsTool::CRC32Ieee.
StunAnswer ==
    /\ crcTable = "none"
    /\ crcTable' = "ieee"
    /\ UNCHANGED <<ts, written, unit, rx>>

--------------------------------------------------------------------------------

IsTable(k) == \E i \in DOMAIN k.data : k.data[i][1] = "table"
Media == SelectSeq(written, LAMBDA k : ~IsTable(k))
HasIdr(pieces) == \E i \in DOMAIN pieces : pieces[i][1] = "unit" /\ pieces[i][2] = IDR

\* Every packet has 188 bytes, and no counter skips or repeats, in any PID and
\* from fragment to fragment.
PacketsWellFormed ==
    /\ \A i \in DOMAIN written : PacketSize(written[i]) = 188
    /\ ~rx.gap

\* The packets of a frame carry its bytes, all and in order, in one PES whose
\* length field, if it has one, is right; so is the ADTS length (up to 8184).  Only
\* of an audio stream that was never announced, as MP3 is not (IsCodecHeader,
\* HLSMuxer.cpp:20), they are lost: on the wire its PID 0xe000 is the
\* PAT's, with the error and start flags in every packet.
Announced == unit = <<>> \/ unit[1][1] = "code" \/ ts.audio_pid # NoPid
FrameWhole ==
    /\ Joined(Media) = unit
    /\ \A i \in DOMAIN Media :
         IF Announced THEN ~Media[i].tei /\ Media[i].pid # PatPid /\ (Media[i].start <=> i = 1)
         ELSE Media[i].tei
    /\ Media # <<>> =>
         Media[1].pes.len \in {0, Media[1].pes.head - 6 + PiecesLen(unit)}
    /\ \A i \in DOMAIN unit :
         unit[i][1] = "adts" /\ unit[i + 1][4] <= 8184 => unit[i][2] = 7 + unit[i + 1][4]

\* Once an audio and a video stream are known, whatever is written follows, in
\* its own fragment, tables that list its PID; they check unless a STUN answer
\* was the first to use the shared CRC table.
FragmentAnnounced ==
    /\ Media # <<>> /\ ts.audio_pid # NoPid /\ ts.video_pid # NoPid =>
         rx.tables = {PatPid, PmtPid} /\ Media[1].pid \in rx.listed
    /\ crcTable # "ieee" => rx.crc

\* An IDR unit follows, in its own fragment, the parameter sets in force,
\* unless the publisher has ever sent its own.
IdrHasSets ==
    HasIdr(unit) /\ ~ts.demux.spspps =>
        \A s \in {<<"sps", ts.demux.sps>>, <<"pps", ts.demux.pps>>} : s[2] # NoSet => s \in rx.sets

\* A fragment of the HLS window plays by itself: a receiver that starts at its
\* first byte gets every frame whole (WriteVideoPes, WriteAudioPes) but those of an
\* audio stream that was never announced, knows the streams (WritePatPmt at every new
\* fragment) and can decode its key frames (EncodeAvc), whatever mix of frames, headers
\* and cuts came before.
FragmentPlays == PacketsWellFormed /\ FrameWhole /\ FragmentAnnounced /\ IdrHasSets
================================================================================
