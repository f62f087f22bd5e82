----------------------------- MODULE Segmenter -----------------------------
(***************************************************************************)
(* How TsMuxer (src/hls/muxer.rs) cuts the frame stream into segments, as  *)
(* pure operators.  Time is counted in frames: a frame's pts is its number *)
(* times a fixed step, so that "elapsed >= segment_duration_pts" is        *)
(* "at least SegFrames frames later", SegFrames being the duration divided *)
(* by the step and rounded up.                                             *)
(***************************************************************************)
EXTENDS Integers

CONSTANT SegFrames

ASSUME SegFramesAssumption == SegFrames \in Nat

SegmentData == [first : Nat, frames : Nat]
MuxState == [started : BOOLEAN, first : Nat, count : Nat]

NewMuxer == [started |-> FALSE, first |-> 0, count |-> 0]

BeginSegment(f) == [started |-> TRUE, first |-> f, count |-> 0]

WriteAudioFrame(mux) == [mux EXCEPT !.count = @ + 1]

(* The muxer on which push_frame decides: the first frame begins a segment. *)
Begun(mux, f) == IF mux.started THEN mux ELSE BeginSegment(f)

(* Mutant: elapsed > duration instead of elapsed >= duration.              *)
CutsLate(mux, f) ==
    /\ f - Begun(mux, f).first > SegFrames
    /\ Begun(mux, f).count > 0

(* Mutant: cuts when the next frame would reach the duration.              *)
CutsEarly(mux, f) ==
    /\ f + 1 - Begun(mux, f).first >= SegFrames
    /\ Begun(mux, f).count > 0

(* push_frame cuts before frame f.  The subtraction saturates in the code; *)
(* frames come in order, so it never does.                                 *)
Cuts(mux, f) ==
    /\ f - Begun(mux, f).first >= SegFrames
    /\ Begun(mux, f).count > 0

FinishSegment(mux) == [first |-> mux.first, frames |-> mux.count]

PushFrame(mux, f) ==
    WriteAudioFrame(IF Cuts(mux, f) THEN BeginSegment(f) ELSE Begun(mux, f))

(* flush has something to hand over.                                       *)
Flushes(mux) == mux.count > 0
=============================================================================
