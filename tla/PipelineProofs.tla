--------------------------- MODULE PipelineProofs ---------------------------
(***************************************************************************)
(* Proofs about Pipeline for every channel capacity, buffer size, segment  *)
(* length and chunk size.                                                  *)
(***************************************************************************)
EXTENDS Pipeline, BasicProofs

USE MaxSegmentsAssumption, SegFramesAssumption, PipelineAssumption

-----------------------------------------------------------------------------
(* The inductive invariant.                                                *)

(* The stages of the owner and of the two tasks fit each other.            *)
StagesInv ==
    /\ owner = "absent" <=> transcoder = "none"
    /\ owner = "absent" <=> muxer = "none"
    /\ owner = "stopped" => muxer = "done"
    /\ muxer = "done" => transcoder = "finished"
    /\ owner = "absent" => store.next_seq = 0 /\ produced = 0
    /\ transcoder = "sending" => batch > 0
    /\ muxer \in {"flushing", "joining", "done"} /\ ~signalled =>
          transcoder = "finished" /\ channel = << >>

(* Channel and muxer: the frames between the published ones and the last   *)
(* one produced.                                                           *)
FramesInv ==
    /\ Taken \in Nat
    /\ \A i \in 1..Len(channel) : channel[i] = Taken + i - 1
    /\ ~mux.started => mux.first = 0 /\ mux.count = 0
    /\ mux.first + mux.count = Taken
    /\ muxer = "publishing" => completed.first + completed.frames = mux.first

(* No segment is longer than one that was cut in time.                     *)
Full == IF SegFrames = 0 THEN 1 ELSE SegFrames

LengthInv ==
    /\ mux.count <= Full
    /\ muxer = "publishing" => completed.frames = Full

Chained ==
    \A i \in 1..(Count(store) - 1) :
       LET a == store.segments[i]  b == store.segments[i + 1]
       IN  b.seq = a.seq + 1 /\ b.first = a.first + a.frames

(* What a listener was told is in the past, and in the store at the place  *)
(* its number says if it is not too old.                                   *)
ListingInv ==
    \A e \in listing :
        /\ e.seq < store.next_seq
        /\ store.next_seq - e.seq <= Count(store) =>
              store.segments[e.seq - store.next_seq + Count(store) + 1] = e

StoreInv == StoreWindow /\ Chained /\ PublishedEnd = PendingStart /\ FullSegments

PInv ==
    TypeOK /\ StagesInv /\ FramesInv /\ LengthInv /\ StoreInv /\ ListingInv

LEMMA MuxMade == NewMuxer \in MuxState
BY DEF NewMuxer, MuxState

LEMMA MuxBegun ==
    ASSUME NEW f \in Nat
    PROVE  LET m == BeginSegment(f)
           IN  m \in MuxState /\ m.started /\ m.first = f /\ m.count = 0
BY DEF BeginSegment, MuxState

LEMMA MuxWritten ==
    ASSUME NEW m \in MuxState
    PROVE  LET w == WriteAudioFrame(m)
           IN  /\ w \in MuxState /\ w.first = m.first
               /\ w.started = m.started /\ w.count = m.count + 1
BY DEF WriteAudioFrame, MuxState

LEMMA InitPInv == Init => PInv
<1> SUFFICES ASSUME Init PROVE PInv
  OBVIOUS
<1> USE DEF Init, NewMuxer, EmptyStore, NoData
<1>1. TypeOK
  <2>1. << >> \in Seq(Nat) /\ << >> \in Seq(Segment)
    OBVIOUS
  <2> QED BY <2>1, MuxMade DEF TypeOK, SegmentData, Store
<1>2. StagesInv /\ LengthInv /\ ListingInv
  BY DEF StagesInv, LengthInv, ListingInv, Full
<1>3. Taken = 0
  <2>1. Len(channel) = 0 /\ produced = 0
    OBVIOUS
  <2> QED BY ONLY <2>1 DEF Taken
<1>4. Len(store.segments) = 0
  OBVIOUS
<1>5. FramesInv
  <2>1. mux.first = 0 /\ mux.count = 0 /\ Len(channel) = 0
    OBVIOUS
  <2>2. muxer # "publishing" /\ 1..0 = {}
    OBVIOUS
  <2> QED BY <1>3, <2>1, <2>2 DEF FramesInv
<1>6. StoreInv
  BY <1>3, <1>4 DEF StoreInv, StoreWindow, Chained, PublishedEnd,
                    PendingStart, FullSegments, Count
<1> QED BY <1>1, <1>2, <1>5, <1>6 DEF PInv

-----------------------------------------------------------------------------
(* The steps that move a task on and touch neither frames nor segments.    *)

ControlStep ==
    \/ Start \/ RequestStop \/ StopReturns
    \/ Connect \/ ConnectFails \/ \E n \in 1..MaxChunk : ReadChunk(n)
    \/ StreamEnds \/ TranscoderSeesShutdown
    \/ RecvEnd \/ MuxSeesShutdown \/ JoinTranscoder

LEMMA ControlKeeps ==
    ASSUME PInv, ControlStep
    PROVE  PInv'
<1>1. /\ UNCHANGED <<produced, channel, mux, completed, store, listing>>
      /\ muxer' = "publishing" <=> muxer = "publishing"
      /\ muxer' \in {"joining", "done"} <=> muxer \in {"joining", "done"}
  BY DEF ControlStep, Start, RequestStop, StopReturns, Connect, ConnectFails,
         ReadChunk, StreamEnds, TranscoderSeesShutdown, RecvEnd,
         MuxSeesShutdown, JoinTranscoder, PInv, StagesInv
<1>2. TypeOK'
  <2>1. batch' \in Nat
    BY DEF PInv, TypeOK, ControlStep, Start, RequestStop, StopReturns, Connect,
           ConnectFails, ReadChunk, StreamEnds, TranscoderSeesShutdown,
           RecvEnd, MuxSeesShutdown, JoinTranscoder
  <2>2. /\ owner' \in {"absent", "running", "joining", "stopped"}
        /\ transcoder' \in {"none", "connecting", "selecting", "sending",
                             "finished"}
        /\ muxer' \in {"none", "selecting", "publishing", "flushing",
                        "joining", "done"}
        /\ signalled' \in BOOLEAN /\ halted' \in BOOLEAN
    BY DEF PInv, TypeOK, ControlStep, Start, RequestStop, StopReturns, Connect,
           ConnectFails, ReadChunk, StreamEnds, TranscoderSeesShutdown,
           RecvEnd, MuxSeesShutdown, JoinTranscoder
  <2> QED BY <1>1, <2>1, <2>2 DEF PInv, TypeOK
<1>3. StagesInv'
  BY DEF PInv, TypeOK, StagesInv, ControlStep, Start, RequestStop, StopReturns,
         Connect, ConnectFails, ReadChunk, StreamEnds, TranscoderSeesShutdown,
         RecvEnd, MuxSeesShutdown, JoinTranscoder
<1>4. FramesInv' /\ LengthInv' /\ ListingInv'
  BY <1>1 DEF PInv, FramesInv, LengthInv, ListingInv, Taken, Count
<1>5. StoreInv'
  <2>1. PendingStart' = PendingStart /\ PublishedEnd' = PublishedEnd
    BY <1>1 DEF PendingStart, PublishedEnd, Taken, Count
  <2> QED BY <1>1, <2>1 DEF PInv, StoreInv, StoreWindow, Chained, FullSegments,
                            Count
<1> QED BY <1>2, <1>3, <1>4, <1>5 DEF PInv

-----------------------------------------------------------------------------
(* The steps that move frames.                                             *)

LEMMA SendFrameKeeps ==
    ASSUME PInv, SendFrame
    PROVE  PInv'
<1>1. TypeOK' /\ StagesInv'
  BY DEF PInv, TypeOK, StagesInv, SendFrame
<1>2. /\ Len(channel') = Len(channel) + 1
      /\ \A i \in 1..Len(channel) : channel'[i] = channel[i]
      /\ channel'[Len(channel) + 1] = produced
  BY DEF PInv, TypeOK, SendFrame
<1>3. Taken' = Taken
  BY <1>2 DEF PInv, TypeOK, SendFrame, Taken
<1>4. FramesInv'
  <2>1. Len(channel) \in Nat /\ produced \in Nat
    BY DEF PInv, TypeOK
  <2>2. produced = Taken + (Len(channel) + 1) - 1
    BY <2>1 DEF Taken
  <2>3. ASSUME NEW i \in 1..Len(channel')
        PROVE  channel'[i] = Taken + i - 1
    BY <1>2, <2>1, <2>2, <2>3 DEF PInv, FramesInv
  <2> QED BY <1>3, <2>3 DEF PInv, FramesInv, SendFrame
<1>5. LengthInv' /\ ListingInv'
  BY DEF PInv, LengthInv, ListingInv, Count, SendFrame
<1>6. StoreInv'
  <2>1. PendingStart' = PendingStart /\ PublishedEnd' = PublishedEnd
    BY <1>3 DEF PendingStart, PublishedEnd, Count, SendFrame
  <2> QED BY <2>1 DEF PInv, StoreInv, StoreWindow, Chained, FullSegments, Count,
                      SendFrame
<1> QED BY <1>1, <1>4, <1>5, <1>6 DEF PInv

LEMMA RecvFrameKeeps ==
    ASSUME PInv, RecvFrame
    PROVE  PInv'
<1> DEFINE f == Head(channel)
<1>1. /\ f = Taken /\ f \in Nat
      /\ channel' \in Seq(Nat) /\ Len(channel') = Len(channel) - 1
      /\ \A i \in 1..Len(channel') : channel'[i] = channel[i + 1]
  BY DEF PInv, TypeOK, FramesInv, RecvFrame
<1>2. Taken' = Taken + 1
  BY <1>1 DEF PInv, TypeOK, Taken, RecvFrame
<1>3. Begun(mux, f) \in MuxState /\ Begun(mux, f).started
      /\ Begun(mux, f).first + Begun(mux, f).count = f
      /\ Begun(mux, f).count = mux.count
      /\ (mux.count > 0 => Begun(mux, f) = mux)
  BY <1>1 DEF PInv, TypeOK, FramesInv, MuxState, Begun, BeginSegment
<1>4. CASE Cuts(mux, f)
  <2>1. mux' \in MuxState /\ mux'.started /\ mux'.first = f /\ mux'.count = 1
    <3>1. mux' = WriteAudioFrame(BeginSegment(f))
      BY <1>4 DEF RecvFrame, PushFrame
    <3> QED BY <1>1, <3>1, MuxBegun, MuxWritten
  <2>2. muxer' = "publishing" /\ completed' = [first |-> mux.first, frames |-> mux.count]
    BY <1>4 DEF RecvFrame, FinishSegment
  <2>3. mux.count > 0 /\ f - mux.first >= SegFrames
    BY <1>3, <1>4 DEF Cuts
  <2>4. mux.count = Full /\ mux.first + mux.count = f
    BY <1>1, <2>3 DEF PInv, TypeOK, MuxState, FramesInv, LengthInv, Full
  <2>5. TypeOK'
    <3>1. mux' \in MuxState /\ completed' \in SegmentData
      BY <1>1, <2>1, <2>2 DEF PInv, TypeOK, MuxState, SegmentData
    <3> QED BY <1>1, <2>2, <3>1 DEF PInv, TypeOK, RecvFrame
  <2>6. FramesInv' /\ LengthInv'
    BY <1>1, <1>2, <2>1, <2>2, <2>4
       DEF PInv, TypeOK, FramesInv, LengthInv, Full
  <2>7. StoreInv'
    <3>1. PendingStart' = PendingStart /\ PublishedEnd' = PublishedEnd
      BY <2>2 DEF PendingStart, PublishedEnd, Count, RecvFrame
    <3> QED BY <2>2, <3>1 DEF PInv, StoreInv, StoreWindow, Chained,
                              FullSegments, Count, RecvFrame
  <2> QED BY <2>2, <2>5, <2>6, <2>7 DEF PInv, StagesInv, ListingInv, Count,
                                        RecvFrame
<1>5. CASE ~ Cuts(mux, f)
  <2>1. /\ mux' = WriteAudioFrame(Begun(mux, f))
        /\ UNCHANGED <<muxer, completed>>
    BY <1>5 DEF RecvFrame, PushFrame
  <2>2. /\ mux' \in MuxState /\ mux'.started
        /\ mux'.first = Begun(mux, f).first
        /\ mux'.count = Begun(mux, f).count + 1
    BY <1>3, <2>1 DEF MuxState, WriteAudioFrame
  <2>3. TypeOK'
    BY <1>1, <2>1, <2>2 DEF PInv, TypeOK, RecvFrame
  <2>4. mux'.count <= Full
    <3>1. CASE mux.count = 0
      BY <1>3, <2>2, <3>1 DEF Full
    <3>2. CASE mux.count > 0
      BY <1>1, <1>3, <1>5, <2>2, <3>2 DEF Cuts, Full, MuxState
    <3> QED BY <3>1, <3>2 DEF PInv, TypeOK, MuxState
  <2>5. FramesInv' /\ LengthInv'
    <3>1. /\ mux.first \in Nat /\ mux.count \in Nat /\ Taken \in Nat
          /\ mux'.first \in Nat /\ mux'.count \in Nat
          /\ Begun(mux, f).first \in Nat /\ Begun(mux, f).count \in Nat
      BY <1>3, <2>2 DEF PInv, TypeOK, FramesInv, MuxState
    <3>2. mux'.first + mux'.count = Taken'
      <4>1. Begun(mux, f).first + Begun(mux, f).count = Taken
        BY <1>1, <1>3
      <4> HIDE DEF f
      <4> QED BY <1>2, <2>2, <3>1, <4>1
    <3>3. \A i \in 1..Len(channel') : channel'[i] = Taken' + i - 1
      BY <1>1, <1>2, <3>1 DEF PInv, TypeOK, FramesInv
    <3>4. muxer # "publishing"
      BY DEF RecvFrame
    <3> QED BY <1>2, <2>1, <2>2, <2>4, <3>1, <3>2, <3>3, <3>4
            DEF FramesInv, LengthInv
  <2>6. StoreInv'
    <3>1. mux'.first = mux.first
      <4>1. CASE mux.count > 0
        BY <1>3, <2>2, <4>1
      <4>2. CASE mux.count = 0
        BY <1>1, <1>3, <2>2, <4>2 DEF PInv, TypeOK, FramesInv, MuxState
      <4> QED BY <4>1, <4>2 DEF PInv, TypeOK, MuxState
    <3>2. PendingStart' = PendingStart /\ PublishedEnd' = PublishedEnd
      BY <2>1, <3>1 DEF PendingStart, PublishedEnd, Count, RecvFrame
    <3> QED BY <2>1, <3>2 DEF PInv, StoreInv, StoreWindow, Chained,
                              FullSegments, Count, RecvFrame
  <2> QED BY <2>1, <2>3, <2>5, <2>6 DEF PInv, StagesInv, ListingInv, Count,
                                        RecvFrame
<1> QED BY <1>4, <1>5

-----------------------------------------------------------------------------
(* The steps that add a segment.                                           *)

LEMMA AddKeeps ==
    ASSUME TypeOK, StoreWindow, Chained, ListingInv,
           NEW data \in SegmentData, PublishedEnd = data.first,
           store' = Add(store, data), listing' = listing
    PROVE  /\ store' \in Store
           /\ StoreWindow' /\ Chained' /\ ListingInv'
           /\ PublishedEnd' = data.first + data.frames
           /\ Count(store') >= Count(store)
<1>0. store' = Add(store, data)
  OBVIOUS
<1> DEFINE n == Len(store.segments)
           k == IF n = MaxSegments THEN 1 ELSE 0
           new == NewSegment(store, data)
           old == store.segments
           next == store.next_seq
           segs == Add(store, data).segments
<1>1. /\ n \in 0..MaxSegments /\ next \in Nat /\ old \in Seq(Segment)
      /\ \A i \in 1..n : old[i] \in Segment
  BY DEF TypeOK, Store, StoreWindow, Count
<1>2. /\ Add(store, data) \in Store /\ Add(store, data).next_seq = next + 1
      /\ Len(segs) = n + 1 - k
      /\ \A i \in 1..(n + 1 - k) :
            segs[i] = IF i = n + 1 - k THEN new ELSE old[i + k]
  <2>1. store \in Store /\ n <= MaxSegments
    BY <1>1 DEF TypeOK
  <2>2. LET m == Len(store.segments)
            d == IF m = MaxSegments THEN 1 ELSE 0
        IN  /\ Add(store, data) \in Store
            /\ Add(store, data).next_seq = store.next_seq + 1
            /\ Len(Add(store, data).segments) = m + 1 - d
            /\ \A i \in 1..(m + 1 - d) :
                  Add(store, data).segments[i] =
                      IF i = m + 1 - d THEN NewSegment(store, data)
                      ELSE store.segments[i + d]
    BY <2>1, AddResult
  <2> QED BY <2>2
<1>3. new.seq = next /\ new.first = data.first /\ new.frames = data.frames
  BY DEF NewSegment
<1>4. data.first \in Nat /\ data.frames \in Nat
  BY DEF SegmentData
<1>5. /\ n <= MaxSegments
      /\ n < MaxSegments => n = next
      /\ \A i \in 1..n : old[i].seq = next - n + i - 1
  BY DEF StoreWindow, Count
<1>6. \A i \in 1..(n - 1) :
         /\ old[i + 1].seq = old[i].seq + 1
         /\ old[i + 1].first = old[i].first + old[i].frames
  BY DEF Chained, Count
<1>7. n > 0 => old[n].first + old[n].frames = data.first
  BY <1>1 DEF PublishedEnd, Count
<1>8. \A e \in listing :
         /\ e.seq < next /\ e.seq \in Nat
         /\ next - e.seq <= n => old[e.seq - next + n + 1] = e
  BY DEF ListingInv, TypeOK, Segment, Count
<1>9. /\ k \in 0..1 /\ n + 1 - k \in 1..MaxSegments /\ n >= k
      /\ (n < MaxSegments) <=> (k = 0)
  <2>1. CASE n = MaxSegments
    BY <1>1, <2>1
  <2>2. CASE n # MaxSegments
    BY <1>1, <2>2
  <2> QED BY <2>1, <2>2
<1> HIDE DEF n, k, new, old, next, segs
<1>10. StoreWindow'
  <2>1. ASSUME NEW i \in 1..(n + 1 - k)
        PROVE  segs[i].seq = (next + 1) - (n + 1 - k) + i - 1
    <3>1. CASE i = n + 1 - k
      BY <1>1, <1>2, <1>3, <1>9, <3>1
    <3>2. CASE i # n + 1 - k
      <4>1. i + k \in 1..n /\ segs[i] = old[i + k]
        BY <1>1, <1>2, <1>9, <3>2
      <4> QED BY <1>1, <1>5, <1>9, <4>1
    <3> QED BY <3>1, <3>2
  <2>2. n + 1 - k < MaxSegments => n + 1 - k = next + 1
    BY <1>1, <1>5, <1>9
  <2> QED BY <1>0, <1>2, <1>9, <2>1, <2>2 DEF StoreWindow, Count, segs
<1>11. Chained'
  <2>1. ASSUME NEW i \in 1..(n - k)
        PROVE  /\ segs[i + 1].seq = segs[i].seq + 1
               /\ segs[i + 1].first = segs[i].first + segs[i].frames
    <3>1. i + k \in 1..n /\ segs[i] = old[i + k]
      BY <1>1, <1>2, <1>9
    <3>2. CASE i = n - k
      <4>1. segs[i + 1] = new /\ segs[i] = old[n]
        BY <1>1, <1>2, <1>9, <3>1, <3>2
      <4> QED BY <1>1, <1>3, <1>5, <1>7, <1>9, <3>2, <4>1
    <3>3. CASE i # n - k
      <4>1. segs[i + 1] = old[(i + k) + 1] /\ i + k \in 1..(n - 1)
        BY <1>1, <1>2, <1>9, <3>3
      <4> QED BY <1>6, <3>1, <4>1
    <3> QED BY <3>2, <3>3
  <2>2. (n + 1 - k) - 1 = n - k
    BY <1>1, <1>9
  <2> QED BY <1>0, <1>2, <2>1, <2>2 DEF Chained, Count, segs
<1>12. PublishedEnd' = data.first + data.frames
  <2>1. segs[Len(segs)] = new /\ segs # << >>
    BY <1>1, <1>2, <1>9
  <2> QED BY <1>0, <1>3, <2>1 DEF PublishedEnd, Count, segs
<1>13. ListingInv'
  <2>1. ASSUME NEW e \in listing
        PROVE  /\ e.seq < next + 1
               /\ (next + 1) - e.seq <= n + 1 - k =>
                     segs[e.seq - (next + 1) + (n + 1 - k) + 1] = e
    <3>1. e.seq < next + 1
      BY <1>1, <1>8
    <3>2. ASSUME (next + 1) - e.seq <= n + 1 - k
          PROVE  segs[e.seq - (next + 1) + (n + 1 - k) + 1] = e
      <4> DEFINE i == e.seq - (next + 1) + (n + 1 - k) + 1
      <4>1. e.seq \in Nat /\ e.seq < next
        BY <1>8
      <4>2. i \in 1..(n - k) /\ i + k = e.seq - next + n + 1 /\ next - e.seq <= n
        <5>1. n \in Nat /\ k \in Nat /\ next \in Nat
          BY <1>1, <1>9
        <5>2. i + k = e.seq - next + n + 1
          BY <4>1, <5>1
        <5>3. next - e.seq <= n - k
          BY <3>2, <4>1, <5>1
        <5>4. i \in 1..(n - k)
          BY <4>1, <5>1, <5>3
        <5>5. next - e.seq <= n
          BY <4>1, <5>1, <5>3
        <5> QED BY <5>2, <5>4, <5>5
      <4>3. segs[i] = old[i + k]
        BY <1>1, <1>2, <1>9, <4>2
      <4>4. old[e.seq - next + n + 1] = e
        BY <1>8, <4>2
      <4> QED BY <4>2, <4>3, <4>4
    <3> QED BY <3>1, <3>2
  <2> QED BY <1>0, <1>2, <2>1 DEF ListingInv, Count, segs
<1>14. Count(store') >= Count(store)
  BY <1>0, <1>1, <1>2, <1>9 DEF Count, segs, n
<1> QED BY <1>0, <1>2, <1>10, <1>11, <1>12, <1>13, <1>14

(* What lengths Add leaves.                                                *)
LEMMA AddFull ==
    ASSUME TypeOK, StoreWindow, NEW data \in SegmentData,
           \A i \in 1..Count(store) : store.segments[i].frames = Full
    PROVE  LET segs == Add(store, data).segments
           IN  /\ Len(segs) \in Nat
               /\ \A i \in 1..Len(segs) :
                     segs[i].frames = IF i = Len(segs) THEN data.frames ELSE Full
<1> DEFINE n == Len(store.segments)
           k == IF n = MaxSegments THEN 1 ELSE 0
           segs == Add(store, data).segments
<1>1. store \in Store /\ n \in 0..MaxSegments
  BY DEF TypeOK, Store, StoreWindow, Count
<1>2. /\ Len(segs) = n + 1 - k
      /\ \A i \in 1..(n + 1 - k) :
            segs[i] = IF i = n + 1 - k THEN NewSegment(store, data)
                      ELSE store.segments[i + k]
  <2>1. store \in Store /\ Len(store.segments) <= MaxSegments
    BY <1>1
  <2>2. LET m == Len(store.segments)
            d == IF m = MaxSegments THEN 1 ELSE 0
        IN  /\ Len(Add(store, data).segments) = m + 1 - d
            /\ \A i \in 1..(m + 1 - d) :
                  Add(store, data).segments[i] =
                      IF i = m + 1 - d THEN NewSegment(store, data)
                      ELSE store.segments[i + d]
    BY <2>1, AddResult
  <2> QED BY <2>2
<1>3. k \in 0..1 /\ n + 1 - k \in Nat
  BY <1>1
<1>4. NewSegment(store, data).frames = data.frames
  BY DEF NewSegment
<1>5. \A i \in 1..n : store.segments[i].frames = Full
  BY DEF Count
<1> HIDE DEF n, k, segs
<1>6. ASSUME NEW i \in 1..(n + 1 - k), i # n + 1 - k
      PROVE  segs[i].frames = Full
  <2>1. i + k \in 1..n
    BY <1>1, <1>3, <1>6
  <2> QED BY <1>2, <1>5, <1>6, <2>1
<1> QED BY <1>2, <1>3, <1>4, <1>6 DEF segs

LEMMA PublishKeeps ==
    ASSUME PInv, Publish
    PROVE  PInv' /\ Count(store') >= Count(store)
<1>1. completed \in SegmentData /\ PublishedEnd = completed.first
  BY DEF PInv, TypeOK, StoreInv, PendingStart, Publish
<1>2. /\ store' \in Store
      /\ StoreWindow' /\ Chained' /\ ListingInv'
      /\ PublishedEnd' = completed.first + completed.frames
      /\ Count(store') >= Count(store)
  BY <1>1, AddKeeps DEF PInv, StoreInv, Publish
<1>3. TypeOK'
  BY <1>2 DEF PInv, TypeOK, SegmentData, NoData, Publish
<1>4. StagesInv' /\ FramesInv' /\ LengthInv'
  BY DEF PInv, StagesInv, FramesInv, LengthInv, Taken, Publish
<1>5. PublishedEnd' = PendingStart'
  BY <1>2 DEF PInv, FramesInv, PendingStart, Publish
<1>6. FullSegments'
  <2>1. \A i \in 1..Count(store) : store.segments[i].frames = Full
    BY DEF PInv, StoreInv, FullSegments, Full, Publish
  <2>2. \A i \in 1..Len(store'.segments) : store'.segments[i].frames = Full
    BY <1>1, <2>1, AddFull DEF PInv, StoreInv, LengthInv, Publish
  <2> QED BY <2>2 DEF FullSegments, Full, Count
<1> QED BY <1>2, <1>3, <1>4, <1>5, <1>6 DEF PInv, StoreInv

LEMMA FlushKeeps ==
    ASSUME PInv, Flush
    PROVE  PInv' /\ Count(store') >= Count(store)
<1>1. /\ mux.first \in Nat /\ mux.count \in Nat
      /\ mux.first + mux.count = Taken /\ PublishedEnd = mux.first
  BY DEF PInv, TypeOK, MuxState, FramesInv, StoreInv, PendingStart, Flush
<1>2. StagesInv' /\ FramesInv' /\ LengthInv' /\ Taken' = Taken
  BY DEF PInv, StagesInv, FramesInv, LengthInv, Taken, Flush
<1>3. PendingStart' = Taken
  BY <1>2 DEF PendingStart, Flush
<1>4. CASE mux.count > 0
  <2> DEFINE data == FinishSegment(mux)
  <2>1. /\ data \in SegmentData /\ data.first = mux.first
        /\ data.frames = mux.count
    BY <1>1 DEF SegmentData, FinishSegment
  <2>2. store' = Add(store, data) /\ listing' = listing
    BY <1>4 DEF Flush, Flushes
  <2> HIDE DEF data
  <2>3. /\ store' \in Store
        /\ StoreWindow' /\ Chained' /\ ListingInv'
        /\ PublishedEnd' = data.first + data.frames
        /\ Count(store') >= Count(store)
    BY <1>1, <2>1, <2>2, AddKeeps DEF PInv, StoreInv
  <2>4. TypeOK'
    BY <2>3 DEF PInv, TypeOK, Flush
  <2>5. FullSegments'
    <3>1. \A i \in 1..Count(store) : store.segments[i].frames = Full
      BY DEF PInv, StoreInv, FullSegments, Full, Flush
    <3>2. \A i \in 1..Len(store'.segments) :
             store'.segments[i].frames = Full \/ i = Len(store'.segments)
      BY <2>1, <2>2, <3>1, AddFull DEF PInv, StoreInv
    <3> QED BY <3>2 DEF FullSegments, Full, Count, Flush
  <2> QED BY <1>1, <1>2, <1>3, <2>1, <2>3, <2>4, <2>5 DEF PInv, StoreInv
<1>5. CASE mux.count = 0
  <2>1. store' = store /\ listing' = listing
    BY <1>5 DEF Flush, Flushes
  <2>2. TypeOK'
    BY <2>1 DEF PInv, TypeOK, Flush
  <2>3. PublishedEnd' = PublishedEnd
    BY <2>1 DEF PublishedEnd, Count
  <2>4. StoreWindow' /\ Chained' /\ ListingInv' /\ FullSegments'
    BY <2>1 DEF PInv, StoreInv, StoreWindow, Chained, ListingInv, FullSegments,
                Count, Flush
  <2>5. Count(store') >= Count(store)
    BY <2>1 DEF PInv, TypeOK, Store, Count
  <2> QED BY <1>1, <1>2, <1>3, <1>5, <2>2, <2>3, <2>4, <2>5 DEF PInv, StoreInv
<1> QED BY <1>1, <1>4, <1>5

LEMMA ServePlaylistKeeps ==
    ASSUME PInv, ServePlaylist
    PROVE  PInv'
<1>1. /\ store.segments \in Seq(Segment) /\ store.next_seq \in Nat
      /\ \A i \in 1..Count(store) : store.segments[i] \in Segment
  BY DEF PInv, TypeOK, Store, Count
<1>2. \A e \in listing' : \E i \in 1..Count(store) : e = store.segments[i]
  <2>1. Count(store) \in Nat /\ Count(store) >= MinSegments
    BY <1>1 DEF ServePlaylist, Count
  <2>2. Playlist(store, MinSegments) = store.segments
    BY <2>1 DEF Playlist
  <2> QED BY <2>2 DEF ServePlaylist
<1>3. TypeOK'
  BY <1>1, <1>2 DEF PInv, TypeOK, ServePlaylist
<1>4. ListingInv'
  <2> SUFFICES ASSUME NEW e \in listing'
               PROVE  /\ e.seq < store.next_seq
                      /\ store.next_seq - e.seq <= Count(store) =>
                            store.segments[e.seq - store.next_seq
                                               + Count(store) + 1] = e
    BY DEF ListingInv, ServePlaylist
  <2>1. PICK i \in 1..Count(store) : e = store.segments[i]
    BY <1>2
  <2>2. e.seq = store.next_seq - Count(store) + i - 1 /\ Count(store) \in Nat
    BY <1>1, <2>1 DEF PInv, StoreInv, StoreWindow, Count
  <2>3. e.seq - store.next_seq + Count(store) + 1 = i
    BY <1>1, <2>2
  <2> QED BY <1>1, <2>1, <2>2, <2>3
<1>5. StagesInv' /\ FramesInv' /\ LengthInv'
  BY DEF PInv, StagesInv, FramesInv, LengthInv, Taken, ServePlaylist
<1>6. StoreInv'
  <2>1. PendingStart' = PendingStart /\ PublishedEnd' = PublishedEnd
    BY DEF PendingStart, PublishedEnd, Taken, Count, ServePlaylist
  <2> QED BY <2>1 DEF PInv, StoreInv, StoreWindow, Chained, FullSegments, Count,
                      ServePlaylist
<1> QED BY <1>3, <1>4, <1>5, <1>6 DEF PInv

-----------------------------------------------------------------------------

LEMMA NextPInv == PInv /\ [Next]_vars => PInv'
<1> SUFFICES ASSUME PInv, [Next]_vars PROVE PInv'
  OBVIOUS
<1>1. CASE UNCHANGED vars
  BY <1>1 DEF vars, PInv, TypeOK, StagesInv, FramesInv, LengthInv, StoreInv,
     ListingInv, Taken, StoreWindow, Chained, PublishedEnd, PendingStart,
     FullSegments, Count
<1> QED BY <1>1, ControlKeeps, SendFrameKeeps, RecvFrameKeeps, PublishKeeps,
           FlushKeeps, ServePlaylistKeeps
        DEF Next, Transcoder, MuxTask, ControlStep

THEOREM PipelineInvariant == Spec => []PInv
BY InitPInv, NextPInv, PTL DEF Spec

(* Every variable keeps to its type.                                       *)
THEOREM PipelineTypeCorrect == Spec => []TypeOK
BY PipelineInvariant, PTL DEF PInv

(* stop() returns, and the mux task ends, only with the tuner free.        *)
THEOREM TunerFree == Spec => []TunerFreeWhenDone
<1>1. PInv => TunerFreeWhenDone
  BY DEF PInv, StagesInv, TunerFreeWhenDone
<1> QED BY <1>1, PipelineInvariant, PTL

(* The published segments, the one being published, the open one and the   *)
(* channel hold every produced frame once and in order.                    *)
THEOREM AudioGapless == Spec => []Gapless
<1>1. PInv => Gapless
  BY DEF PInv, FramesInv, StoreInv, Chained, Gapless
<1> QED BY <1>1, PipelineInvariant, PTL

(* A stream that ends by itself is published to its last frame.            *)
THEOREM TailKept == Spec => []TailPublished
<1>1. PInv => TailPublished
  <2> SUFFICES ASSUME PInv, muxer = "done", ~signalled
               PROVE  PublishedEnd = produced
    BY DEF TailPublished
  <2>1. PublishedEnd = Taken /\ channel = << >> /\ produced \in Nat
    BY DEF PInv, TypeOK, StoreInv, PendingStart, StagesInv
  <2>2. Len(channel) = 0
    BY <2>1
  <2> QED BY <2>1, <2>2 DEF Taken
<1> QED BY <1>1, PipelineInvariant, PTL

(* The buffer is the newest MaxSegments segments, numbered without a gap.  *)
THEOREM BufferWindow == Spec => []StoreWindow
BY PipelineInvariant, PTL DEF PInv, StoreInv

(* Only the flushed segment is shorter than the segment length.            *)
THEOREM SegmentsFull == Spec => []FullSegments
BY PipelineInvariant, PTL DEF PInv, StoreInv

(* What a playlist listed is served unchanged until it has been pushed out *)
(* by MaxSegments newer segments, and never after.                         *)
THEOREM ListingsHonoured == Spec => []ListingHonoured
<1>1. PInv => ListingHonoured
  <2> SUFFICES ASSUME PInv, NEW e \in listing
               PROVE  Get(store, e.seq) =
                         IF store.next_seq - e.seq > MaxSegments THEN {} ELSE {e}
    BY DEF ListingHonoured
  <2> DEFINE n == Len(store.segments)
             next == store.next_seq
  <2>1. n \in 0..MaxSegments /\ next \in Nat /\ DOMAIN store.segments = 1..n
    BY DEF PInv, TypeOK, Store, StoreInv, StoreWindow, Count
  <2>2. /\ n < MaxSegments => n = next
        /\ \A i \in 1..n : store.segments[i].seq = next - n + i - 1
    BY DEF PInv, StoreInv, StoreWindow, Count
  <2>3. /\ e.seq \in Nat /\ e.seq < next
        /\ next - e.seq <= n => store.segments[e.seq - next + n + 1] = e
    BY DEF PInv, TypeOK, Segment, ListingInv, Count
  <2>4. Get(store, e.seq) =
           {store.segments[i] : i \in {j \in 1..n : next - n + j - 1 = e.seq}}
    BY <2>1, <2>2, Zenon DEF Get
  <2> HIDE DEF n, next
  <2>5. CASE next - e.seq > n
    <3>1. {j \in 1..n : next - n + j - 1 = e.seq} = {}
      BY <2>1, <2>3, <2>5
    <3>2. next - e.seq > MaxSegments
      BY <2>1, <2>2, <2>3, <2>5
    <3> QED BY <2>4, <3>1, <3>2 DEF next
  <2>6. CASE next - e.seq <= n
    <3>1. {j \in 1..n : next - n + j - 1 = e.seq} = {e.seq - next + n + 1}
      <4> DEFINE p == e.seq - next + n + 1
      <4>1. p \in 1..n /\ \A j \in 1..n : next - n + j - 1 = e.seq <=> j = p
        BY <2>1, <2>3, <2>6
      <4> HIDE DEF p
      <4>2. {j \in 1..n : next - n + j - 1 = e.seq} = {p}
        BY <4>1
      <4> QED BY <4>2 DEF p
    <3>2. ~ (next - e.seq > MaxSegments)
      BY <2>1, <2>3, <2>6
    <3> QED BY <2>3, <2>4, <2>6, <3>1, <3>2 DEF next
  <2> QED BY <2>1, <2>3, <2>5, <2>6
<1> QED BY <1>1, PipelineInvariant, PTL

-----------------------------------------------------------------------------
(* Action properties.                                                      *)

(* Eviction never makes a served playlist unavailable again.               *)
THEOREM PlaylistStays == Spec => StaysServable
<1>1. ASSUME PInv, [Next]_vars, Count(store) >= MinSegments
      PROVE  Count(store)' >= MinSegments
  <2>1. Count(store) \in Nat /\ Count(store') \in Nat
    BY <1>1, NextPInv DEF PInv, TypeOK, Store, Count
  <2>2. CASE Publish \/ Flush
    BY <1>1, <2>1, <2>2, PublishKeeps, FlushKeeps
  <2>3. CASE store' = store
    BY <1>1, <2>3
  <2> QED BY <1>1, <2>2, <2>3
          DEF Next, vars, Transcoder, MuxTask, Start, RequestStop, StopReturns,
              ServePlaylist, Connect, ConnectFails, ReadChunk, SendFrame,
              StreamEnds, TranscoderSeesShutdown, RecvFrame, RecvEnd,
              MuxSeesShutdown, JoinTranscoder
<1>2. PInv /\ [Next]_vars =>
         [Count(store) >= MinSegments => Count(store)' >= MinSegments]_vars
  BY <1>1
<1> QED BY <1>2, PipelineInvariant, PTL DEF Spec, StaysServable

(* Once the mux task joins a transcoder that waits for room in the full    *)
(* channel, neither ever moves again.                                      *)
THEOREM WedgePermanent == Spec => WedgeIsForever
<1>1. ASSUME PInv, [Next]_vars, ChannelWedge
      PROVE  ChannelWedge'
  BY <1>1 DEF PInv, StagesInv, ChannelWedge, Next, vars, Transcoder, MuxTask, Start,
     RequestStop, StopReturns, ServePlaylist, Connect, ConnectFails, ReadChunk,
     SendFrame, StreamEnds, TranscoderSeesShutdown, RecvFrame, Publish,
     RecvEnd, MuxSeesShutdown, Flush, JoinTranscoder
<1>2. PInv /\ [Next]_vars => [ChannelWedge => ChannelWedge']_vars
  BY <1>1
<1> QED BY <1>2, PipelineInvariant, PTL DEF Spec, WedgeIsForever

-----------------------------------------------------------------------------
(* The refinement.                                                         *)

LEMMA StepLives ==
    ASSUME PInv, [Next]_vars
    PROVE  [Life!Next]_(Life!lifeVars)
<1> USE DEF PInv, StagesInv, TypeOK, Life!lifeVars, Life!Next
<1>1. CASE Start
  BY <1>1 DEF Start, Life!Start
<1>2. CASE RequestStop
  BY <1>2 DEF RequestStop, Life!RequestStop
<1>3. CASE StopReturns
  BY <1>3 DEF StopReturns, Life!StopReturns
<1>4. CASE ConnectFails \/ StreamEnds \/ TranscoderSeesShutdown
  BY <1>4 DEF ConnectFails, StreamEnds, TranscoderSeesShutdown,
              Life!ReleaseTuner
<1>5. CASE Connect \/ SendFrame \/ \E n \in 1..MaxChunk : ReadChunk(n)
  BY <1>5 DEF Connect, SendFrame, ReadChunk
<1>6. CASE RecvFrame \/ RecvEnd \/ MuxSeesShutdown \/ JoinTranscoder
  BY <1>6 DEF RecvFrame, RecvEnd, MuxSeesShutdown, JoinTranscoder
<1>7. CASE Publish \/ Flush
  <2>1. store'.next_seq = store.next_seq + 1 \/ store' = store
    BY <1>7 DEF Publish, Flush, Add
  <2> QED BY <1>7, <2>1 DEF Publish, Flush, Life!Publish
<1>8. CASE ServePlaylist \/ UNCHANGED vars
  BY <1>8 DEF ServePlaylist, vars
<1> QED BY <1>1, <1>2, <1>3, <1>4, <1>5, <1>6, <1>7, <1>8
        DEF Next, Transcoder, MuxTask

(* The tasks, the channel and the signals together do what the owner of an *)
(* HlsPipeline may rely on.                                                *)
THEOREM PipelineKeepsPromise == Spec => ImplementsLife
<1>1. Init => Life!Init
  BY DEF Init, EmptyStore, Life!Init
<1> QED BY <1>1, StepLives, PipelineInvariant, PTL
        DEF Spec, ImplementsLife, Life!Spec

(* From the channel to the store nothing is lost, repeated or cut short.   *)
THEOREM PipelineKeepsAudio == Spec => []AudioKept
BY AudioGapless, TailKept, SegmentsFull, PTL DEF AudioKept

(* The ring buffer is what it should be, to the mux task and to listeners. *)
THEOREM PipelineKeepsBuffer == Spec => []BufferKept
BY BufferWindow, ListingsHonoured, PTL DEF BufferKept
=============================================================================
