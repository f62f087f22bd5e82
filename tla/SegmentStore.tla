---------------------------- MODULE SegmentStore ----------------------------
(***************************************************************************)
(* The ring buffer of HLS segments (src/hls/segment_store.rs) as pure      *)
(* operators on a record [segments, next_seq].  A segment is               *)
(* [seq, first, frames]: its sequence number and, in place of its bytes,   *)
(* the number of its first audio frame and how many frames it holds.       *)
(***************************************************************************)
EXTENDS Integers, Sequences

CONSTANT MaxSegments   \* SegmentStore::new(30), src/hls/pipeline.rs

ASSUME MaxSegmentsAssumption == MaxSegments \in Nat \ {0}

Segment == [seq : Nat, first : Nat, frames : Nat]
Store == [segments : Seq(Segment), next_seq : Nat]

EmptyStore == [segments |-> << >>, next_seq |-> 0]

(* Mutant: an overflowing buffer is cut down to its newest segment.        *)
KeepNewestOnly(s) ==
    IF Len(s) > MaxSegments THEN SubSeq(s, Len(s), Len(s)) ELSE s

(* One store holds at most MaxSegments segments: the oldest leave first.   *)
KeepNewest(s) ==
    IF Len(s) > MaxSegments
    THEN SubSeq(s, Len(s) - MaxSegments + 1, Len(s)) ELSE s

(* Mutant: eviction tested before the push, so one segment too many stays. *)
AddEvictsLate(store, data) ==
    [segments |-> Append(KeepNewest(store.segments),
                         [seq |-> store.next_seq, first |-> data.first,
                          frames |-> data.frames]),
     next_seq |-> store.next_seq + 1]

(* Mutant: segments are numbered by their place in the buffer.             *)
AddNumbersByPlace(store, data) ==
    [segments |-> KeepNewest(Append(store.segments,
                         [seq |-> Len(store.segments), first |-> data.first,
                          frames |-> data.frames])),
     next_seq |-> store.next_seq + 1]

(* add: push back under the next number, then pop the front while too long. *)
Add(store, data) ==
    [segments |-> KeepNewest(Append(store.segments,
                         [seq |-> store.next_seq, first |-> data.first,
                          frames |-> data.frames])),
     next_seq |-> store.next_seq + 1]

Count(store) == Len(store.segments)

FirstSeq(store) == IF store.segments = << >> THEN 0 ELSE Head(store.segments).seq

LastSeq(store) ==
    IF store.segments = << >> THEN 0 ELSE store.segments[Count(store)].seq

(* The segments an HTTP request for number n can be answered with.         *)
Get(store, n) ==
    {store.segments[i] : i \in {j \in DOMAIN store.segments :
                                    store.segments[j].seq = n}}

(* generate_playlist: nothing below the minimum, else every segment kept.  *)
Playlist(store, min) ==
    IF Count(store) < min THEN << >> ELSE store.segments
=============================================================================
