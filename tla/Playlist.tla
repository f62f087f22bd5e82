------------------------------ MODULE Playlist ------------------------------
(***************************************************************************)
(* What a player reads: the playlists generate_playlist writes of the ring *)
(* buffer (src/src/hls/segment_store.rs) while the muxer cuts segments     *)
(* into it.  Segments are cut by the frames' pts, which count ticks of     *)
(* Clock and advance by the truncated PtsStep, while their durations are   *)
(* computed from the samples, exactly.                                     *)
(***************************************************************************)
EXTENDS SegmentStore, Segmenter, FiniteSetsExt

CONSTANTS
    Samples,          \* samples per channel of a frame (1024)
    SampleRate,       \* sample_rate of the frames
    Clock,            \* pts per second (90_000)
    SegmentDuration,  \* segment_duration_pts, of --segment-duration
    MinSegments,      \* --min-segments
    MaxFrames         \* bound: frames of the stream

(* What the pts advance by from frame to frame.                            *)
PtsStep == (Samples * Clock) \div SampleRate

ASSUME PlaylistAssumption ==
    /\ Samples \in Nat \ {0} /\ SampleRate \in Nat \ {0} /\ Clock \in Nat \ {0}
    /\ PtsStep > 0 /\ SegmentDuration \in Nat
    /\ MinSegments \in Nat /\ MaxFrames \in Nat
    /\ SegFrames = (SegmentDuration + PtsStep - 1) \div PtsStep

VARIABLES
    frame,     \* frames that the muxer has had
    mux, store,
    ended,     \* the stream has ended and the muxer is flushed
    playlist   \* the last playlist that was served

playlistVars == <<frame, mux, store, ended, playlist>>

Unserved == [target |-> 0, sequence |-> 0, segments |-> << >>]

PlaylistInit ==
    /\ frame = 0 /\ mux = NewMuxer /\ store = EmptyStore
    /\ ended = FALSE /\ playlist = Unserved

MuxFrame ==
    /\ ~ended /\ frame < MaxFrames
    /\ frame' = frame + 1 /\ mux' = PushFrame(mux, frame)
    /\ store' = IF Cuts(mux, frame) THEN Add(store, FinishSegment(mux)) ELSE store
    /\ UNCHANGED <<ended, playlist>>

End ==
    /\ ~ended /\ ended' = TRUE
    /\ store' = IF Flushes(mux) THEN Add(store, FinishSegment(mux)) ELSE store
    /\ UNCHANGED <<frame, mux, playlist>>

(* In samples, of which a second has SampleRate.                           *)
Duration(segment) == segment.frames * Samples

(* Mutant: the newest segment gives the target.                            *)
TargetOfNewest(segments) ==
    IF segments = << >> THEN 10
    ELSE Duration(segments[Len(segments)]) \div SampleRate

(* The longest segment, rounded down to seconds.                           *)
Target(segments) ==
    IF segments = << >> THEN 10
    ELSE Max({Duration(segments[i]) \div SampleRate : i \in DOMAIN segments})

Serve ==
    /\ Count(store) >= MinSegments
    /\ playlist' = [target |-> Target(store.segments), sequence |-> FirstSeq(store),
                    segments |-> store.segments]
    /\ UNCHANGED <<frame, mux, store, ended>>

PlaylistNext == MuxFrame \/ End \/ Serve

PlaylistSpec == PlaylistInit /\ [][PlaylistNext]_playlistVars

-----------------------------------------------------------------------------
(* Properties.                                                             *)

PlaylistTypeOK ==
    /\ frame \in 0..MaxFrames /\ mux \in MuxState /\ ended \in BOOLEAN
    /\ store \in Store /\ Count(store) <= MaxSegments
    /\ playlist \in [target : Nat, sequence : Nat, segments : Seq(Segment)]

(* A segment that the end of the stream did not cut short: it has a frame  *)
(* at least, with a duration of zero too.                                  *)
FullFrames == IF SegFrames = 0 THEN 1 ELSE SegFrames
Full(segment) == segment.frames = FullFrames
Listed == {playlist.segments[i] : i \in DOMAIN playlist.segments}
ListsFull == \E s \in Listed : Full(s)

(* "The EXTINF duration of each Media Segment in the Playlist file, when   *)
(* rounded to the nearest integer, MUST be less than or equal to the       *)
(* target duration" (HLS).                                                 *)
StandardTarget ==
    \A s \in Listed :
        (2 * Duration(s) + SampleRate) \div (2 * SampleRate) <= playlist.target

(* A frame, and the ticks that the pts of a segment fall short of its      *)
(* audio, are less than half a second.                                     *)
OvershootsLittle == 2 * (PtsStep + FullFrames) < Clock

(* The target is long enough as long as segments are meant to last whole   *)
(* seconds, and at least one of them is whole.                             *)
TargetCovers ==
    SegmentDuration % Clock = 0 /\ OvershootsLittle /\ ListsFull => StandardTarget

(* "The EXT-X-TARGETDURATION ... MUST NOT change": a playlist that has a   *)
(* whole segment has the target of any other, whatever has come and gone.  *)
TargetKept == ListsFull => playlist.target = (FullFrames * Samples) \div SampleRate

(* The number at the head of the list and its place give every segment the *)
(* number under which it is served, and the audio it begins with: a player *)
(* that reloads goes on without gap or repetition.                         *)
NumbersHold ==
    \A i \in DOMAIN playlist.segments :
        LET s == playlist.segments[i]
        IN  s.seq = playlist.sequence + i - 1 /\ s.first = s.seq * FullFrames

(* "30 segments (60 seconds) are kept": a full buffer of whole segments    *)
(* holds the time it is meant to.                                          *)
BufferHoldsItsTime ==
    LET s == store.segments
    IN  Len(s) = MaxSegments /\ ~ended =>
            (s[Len(s)].first + s[Len(s)].frames - s[1].first) * Samples * Clock
                >= MaxSegments * SegmentDuration * SampleRate

(* What a playlist says of its segments is so, and stays so.               *)
PlaylistsTrue == TargetCovers /\ TargetKept /\ NumbersHold /\ BufferHoldsItsTime
=============================================================================
