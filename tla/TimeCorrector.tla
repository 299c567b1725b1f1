----------------------------- MODULE TimeCorrector -----------------------------
(***************************************************************************)
(* TimeCorrector (live/base): the time stamps players get, made from the   *)
(* publisher's, which may jump (another source, a restarted encoder).      *)
(* Times are milliseconds; -1 is "none yet" as in the code.                *)
(***************************************************************************)
EXTENDS Integers

CONSTANTS Times,                \* time stamps a publisher sends
          kMaxDelta,            \* kMaxVideoDeltaTime and kMaxAudioDeltaTime, both 100
          kDefaultVideoDelta, kDefaultAudioDelta,
          MaxPackets            \* bound: packets corrected

ASSUME TimeAssumption ==
    /\ Times \subseteq Nat
    /\ kMaxDelta \in Nat /\ MaxPackets \in Nat
    /\ kDefaultVideoDelta \in 0..(kMaxDelta - 1)
    /\ kDefaultAudioDelta \in 0..(kMaxDelta - 1)

VARIABLES
    video,      \* [orig, corr]: video_original_timestamp_, video_corrected_timestamp_
    audio,      \* the same of audio
    between,    \* audio_numbers_between_video_
    packets,    \* packets corrected so far
    \* for the property:
    apart,      \* the publisher's own times have jumped since audio and video last met
    fresh,      \* no audio packet since the last video packet
    before      \* video as it was before the last packet
timeVars == <<video, audio, between, packets, apart, fresh, before>>

NoStamp == [orig |-> -1, corr |-> 0]
Floor(t) == IF t < 0 THEN 0 ELSE t
Fine(delta) == -kMaxDelta < delta /\ delta < kMaxDelta

\* The next corrected time: delta on, or the default when delta is not fine.
Advance(corr, delta, default) == Floor(corr + (IF Fine(delta) THEN delta ELSE default))

TimeInit ==
    /\ video = NoStamp
    /\ audio = NoStamp
    /\ between = 0
    /\ packets = 0
    /\ apart = FALSE
    /\ fresh = TRUE
    /\ before = NoStamp

\* CorrectVideoTimeStampByVideo.  The first video starts from its own time, or
\* from the audio's when that is far away.
VideoBase(t) ==
    CASE video.orig # -1 -> video
      [] video.orig = -1 /\ audio.orig # -1 /\ ~Fine(audio.orig - t) -> audio
      [] OTHER -> [orig |-> t, corr |-> t]
CorrectVideo(t) ==
    LET base == VideoBase(t)
    IN  /\ packets < MaxPackets
        /\ packets' = packets + 1
        /\ between' = 0
        /\ video' = [orig |-> t, corr |-> Advance(base.corr, t - base.orig, kDefaultVideoDelta)]
        /\ apart' = (apart \/ ~Fine(t - base.orig) \/ base.corr + t - base.orig < 0)
        /\ fresh' = TRUE
        /\ before' = video
        /\ UNCHANGED audio

\* CorrectAudioTimeStampByAudio: placed by the audio packet before it.
AudioByAudio(t) ==
    IF audio.orig = -1 THEN t ELSE Advance(audio.corr, t - audio.orig, kDefaultAudioDelta)

\* CorrectAudioTimeStampByVideo: the first audio packet after a video packet is
\* placed by that one, any further one by the audio before it.
AudioByVideo(t) ==
    CASE between + 1 > 1 -> AudioByAudio(t)
      [] between + 1 <= 1 /\ video.orig = -1 -> t
      [] OTHER -> Advance(video.corr, t - video.orig, kDefaultVideoDelta)
CorrectAudio(t) ==
    LET by == IF fresh THEN video ELSE audio
    IN  /\ packets < MaxPackets
        /\ packets' = packets + 1
        /\ between' = between + 1
        /\ audio' = [orig |-> t, corr |-> AudioByVideo(t)]
        /\ apart' = (\/ ~fresh /\ apart
                     \/ by.orig # -1 /\ (~Fine(t - by.orig) \/ by.corr + t - by.orig < 0))
        /\ fresh' = FALSE
        /\ before' = video
        /\ UNCHANGED video

\* CorrectTimestamp: a codec header gets 0 and changes nothing.
TimeNext == \E t \in Times : CorrectVideo(t) \/ CorrectAudio(t)

TimeSpec == TimeInit /\ [][TimeNext]_timeVars

--------------------------------------------------------------------------------

\* Audio and video stay as far apart as the publisher had them, as long as its
\* times did not jump since an audio packet last followed a video packet.
SyncKept ==
    ~apart /\ video.orig # -1 /\ audio.orig # -1 =>
        audio.corr - audio.orig = video.corr - video.orig

\* Whatever the publisher's times do, video goes on in steps of less than the
\* limit and never before 0.
VideoContinuous ==
    /\ video.corr >= 0 /\ audio.corr >= 0
    /\ before.orig # -1 => Fine(video.corr - before.corr)

\* What CorrectTimestamp promises to players: one continuous time line, in
\* which sound and picture belong together again by the first audio packet
\* after a video packet.
TimelineKept == SyncKept /\ VideoContinuous
================================================================================
