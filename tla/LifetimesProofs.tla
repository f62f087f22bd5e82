--------------------------- MODULE LifetimesProofs ---------------------------
(***************************************************************************)
(* Proofs about what has a beginning and an end: the playlists of a ring   *)
(* buffer, a listener and the pipeline it keeps, the ffmpeg child, and the *)
(* search for the tuner; each for every value of its constants, and then   *)
(* the four together as they are checked.                                  *)
(***************************************************************************)
EXTENDS MCLifetimes, BasicProofs, FiniteSetTheorems

-----------------------------------------------------------------------------
(* Playlists (module Playlist).                                            *)

(* A segment as the muxer cuts it: it begins where its number says.        *)
Cut(segment) ==
    segment.frames \in 1..FullFrames /\ segment.first = segment.seq * FullFrames

(* The segment that is made comes after those that are stored.             *)
MuxInv ==
    /\ frame = 0 => mux = NewMuxer /\ store = EmptyStore
    /\ frame > 0 => /\ mux.started /\ mux.count \in 1..FullFrames
                    /\ frame = mux.first + mux.count
                    /\ ~ended => mux.first = store.next_seq * FullFrames

(* The numbers of the stored ones end with the next; only the last of a    *)
(* stream may be short.                                                    *)
StoredInv ==
    \A i \in 1..Len(store.segments) :
        /\ Cut(store.segments[i])
        /\ store.segments[i].seq + Len(store.segments) + 1 = store.next_seq + i
        /\ ~ended \/ i < Len(store.segments) => Full(store.segments[i])

PlaylistInv ==
    /\ PlaylistTypeOK /\ MuxInv /\ StoredInv
    /\ TargetKept /\ NumbersHold
    /\ \A i \in 1..Len(playlist.segments) : Cut(playlist.segments[i])

-----------------------------------------------------------------------------

LEMMA PlaylistNumbers ==
    /\ Samples \in Nat \ {0} /\ SampleRate \in Nat \ {0} /\ Clock \in Nat \ {0}
    /\ PtsStep \in Nat \ {0} /\ SegmentDuration \in Nat
    /\ MinSegments \in Nat /\ MaxFrames \in Nat /\ SegFrames \in Nat
    /\ FullFrames \in Nat \ {0} /\ MaxSegments \in Nat \ {0}
<1>1. Samples \in Nat \ {0} /\ SampleRate \in Nat \ {0} /\ Clock \in Nat \ {0} /\ PtsStep > 0
  BY PlaylistAssumption
<1>2. Samples * Clock \in Nat
  BY <1>1
<1>3. PtsStep \in Nat
  BY <1>1, <1>2, Quotient DEF PtsStep
<1>4. SegmentDuration \in Nat /\ MinSegments \in Nat /\ MaxFrames \in Nat
  BY PlaylistAssumption
<1>5. SegFrames \in Nat /\ FullFrames \in Nat \ {0} /\ MaxSegments \in Nat \ {0}
  BY SegFramesAssumption, MaxSegmentsAssumption DEF FullFrames
<1> QED BY <1>1, <1>3, <1>4, <1>5

LEMMA PlaylistInitInv == ASSUME PlaylistInit PROVE PlaylistInv
<1> USE PlaylistNumbers DEF PlaylistInit
<1>1. /\ mux = [started |-> FALSE, first |-> 0, count |-> 0] /\ frame = 0
      /\ store = [segments |-> << >>, next_seq |-> 0] /\ ended = FALSE
      /\ playlist = [target |-> 0, sequence |-> 0, segments |-> << >>]
  BY DEF NewMuxer, EmptyStore, Unserved
<1>2. << >> \in Seq(Segment) /\ Len(<< >>) = 0 /\ DOMAIN << >> = {}
  OBVIOUS
<1>3. PlaylistTypeOK
  <2>0. 0 \in 0..MaxFrames /\ mux \in MuxState
    BY <1>1 DEF MuxState
  <2>1. frame \in 0..MaxFrames /\ mux \in MuxState /\ ended \in BOOLEAN
    BY <1>1, <2>0, Zenon
  <2>2. store \in Store /\ Count(store) <= MaxSegments
    BY <1>1, <1>2 DEF Store, Count
  <2>3. playlist \in [target : Nat, sequence : Nat, segments : Seq(Segment)]
    BY <1>1, <1>2
  <2> QED BY <2>1, <2>2, <2>3 DEF PlaylistTypeOK
<1>4. MuxInv /\ StoredInv
  BY <1>1, <1>2 DEF MuxInv, StoredInv, NewMuxer, EmptyStore
<1>5. DOMAIN playlist.segments = {} /\ Len(playlist.segments) = 0
  BY <1>1, <1>2
<1>6. TargetKept /\ NumbersHold
  BY <1>5 DEF TargetKept, NumbersHold, ListsFull, Listed
<1> QED BY <1>3, <1>4, <1>5, <1>6 DEF PlaylistInv

LEMMA PlaylistState ==
    ASSUME PlaylistTypeOK
    PROVE  /\ frame \in Nat /\ mux \in MuxState /\ mux.first \in Nat /\ mux.count \in Nat
           /\ mux.started \in BOOLEAN
           /\ mux = [started |-> mux.started, first |-> mux.first, count |-> mux.count]
           /\ store \in Store /\ Len(store.segments) <= MaxSegments
           /\ Len(store.segments) \in Nat /\ store.next_seq \in Nat
           /\ DOMAIN store.segments = 1..Len(store.segments)
           /\ \A i \in 1..Len(store.segments) : store.segments[i] \in Segment
           /\ playlist.target \in Nat /\ playlist.sequence \in Nat
           /\ Len(playlist.segments) \in Nat
           /\ DOMAIN playlist.segments = 1..Len(playlist.segments)
           /\ \A i \in 1..Len(playlist.segments) : playlist.segments[i] \in Segment
<1>1. /\ frame \in Nat /\ mux \in MuxState /\ mux.first \in Nat /\ mux.count \in Nat
      /\ mux.started \in BOOLEAN
      /\ mux = [started |-> mux.started, first |-> mux.first, count |-> mux.count]
  BY DEF PlaylistTypeOK, MuxState
<1>2. /\ store \in Store /\ Len(store.segments) <= MaxSegments
      /\ store.segments \in Seq(Segment) /\ store.next_seq \in Nat
  BY DEF PlaylistTypeOK, Store, Count
<1>3. /\ playlist.target \in Nat /\ playlist.sequence \in Nat
      /\ playlist.segments \in Seq(Segment)
  BY DEF PlaylistTypeOK
<1>4. ASSUME NEW s \in Seq(Segment)
      PROVE  /\ Len(s) \in Nat /\ DOMAIN s = 1..Len(s)
             /\ \A i \in 1..Len(s) : s[i] \in Segment
  OBVIOUS
<1> QED BY <1>1, <1>2, <1>3, <1>4

(* What a segment that is added under the next number leaves behind.       *)
LEMMA AddKeeps ==
    ASSUME PlaylistTypeOK, StoredInv, ~ended, NEW data \in SegmentData,
           data.frames \in 1..FullFrames, data.first = store.next_seq * FullFrames,
           store' = Add(store, data), ended' \in BOOLEAN,
           ~ended' => data.frames = FullFrames
    PROVE  /\ store' \in Store /\ Count(store') <= MaxSegments
           /\ store'.next_seq = store.next_seq + 1
           /\ StoredInv'
<1> DEFINE old == store.segments
           new == store'.segments
           n == Len(old)
           k == IF n = MaxSegments THEN 1 ELSE 0
           m == n + 1 - k
<1>0. /\ store \in Store /\ n \in Nat /\ n <= MaxSegments /\ store.next_seq \in Nat
      /\ \A i \in 1..n : old[i] \in Segment
  BY PlaylistState
<1>1. /\ store' \in Store /\ store'.next_seq = store.next_seq + 1
      /\ Len(new) = m
      /\ \A i \in 1..m :
            new[i] = IF i = m THEN NewSegment(store, data) ELSE old[i + k]
  BY <1>0, AddResult
<1>2. /\ n \in Nat /\ k \in Nat /\ m \in Nat /\ m <= MaxSegments /\ m = n + 1 - k
      /\ FullFrames \in Nat
  <2>1. n \in Nat /\ n <= MaxSegments /\ MaxSegments \in Nat \ {0}
    BY <1>0, PlaylistNumbers
  <2> HIDE DEF n
  <2> QED BY <2>1, PlaylistNumbers
<1>6. store'.next_seq = store.next_seq + 1
  BY <1>1
<1>3. ASSUME NEW i \in 1..m
      PROVE  /\ Cut(new[i])
             /\ new[i].seq + m + 1 = store'.next_seq + i
             /\ ~ended' \/ i < m => Full(new[i])
  <2>1. CASE i = m
    <3>1. new[i] = [seq |-> store.next_seq, first |-> data.first, frames |-> data.frames]
      BY <1>1, <2>1 DEF NewSegment
    <3>2. Cut(new[i]) /\ new[i].seq = store.next_seq
      BY <3>1 DEF Cut
    <3>3. ~ended' => Full(new[i])
      BY <3>1 DEF Full
    <3> HIDE DEF new, m
    <3>4. new[i].seq + m + 1 = store'.next_seq + i /\ ~(i < m)
      <4>1. m \in Nat /\ store.next_seq \in Nat
        BY <1>0, <1>2
      <4>2. new[i].seq = store.next_seq /\ i = m
        BY <2>1, <3>2
      <4> HIDE DEF n, k, old
      <4> QED BY <1>6, <4>1, <4>2
    <3> QED BY <3>2, <3>3, <3>4
  <2>2. CASE i # m
    <3>2. new[i] = old[i + k]
      BY <1>1, <2>2
    <3>1. i + k \in 1..n /\ i < m /\ i \in Nat
      <4> HIDE DEF k, n
      <4> QED BY <1>2, <2>2
    <3>3. /\ Cut(old[i + k]) /\ Full(old[i + k])
          /\ old[i + k].seq + n + 1 = store.next_seq + (i + k)
      BY <3>1 DEF StoredInv
    <3>4. old[i + k].seq \in Nat
      BY <1>0, <3>1 DEF Segment
    <3> HIDE DEF new, old, k, n, m
    <3>5. old[i + k].seq + m + 1 = store'.next_seq + i
      <4>1. store.next_seq \in Nat /\ k \in Nat /\ n \in Nat /\ m = n + 1 - k /\ i \in Nat
        BY <1>0, <1>2, <3>1
      <4>2. old[i + k].seq + n + 1 = store.next_seq + (i + k)
        BY <3>3
      <4> QED BY <1>6, <3>4, <4>1, <4>2
    <3> QED BY <3>1, <3>2, <3>3, <3>5
  <2> QED BY <2>1, <2>2
<1>4. StoredInv'
  <2> HIDE DEF k, old, m
  <2> QED BY <1>1, <1>3 DEF StoredInv, Full, Cut, FullFrames
<1>5. Count(store') <= MaxSegments
  BY <1>1, <1>2 DEF Count
<1> QED BY <1>1, <1>4, <1>5

(* A frame is written to what the muxer is making, or begins with.         *)
LEMMA FrameWritten ==
    ASSUME NEW m \in MuxState
    PROVE  /\ WriteAudioFrame(m) \in MuxState
           /\ WriteAudioFrame(m).started = m.started
           /\ WriteAudioFrame(m).first = m.first
           /\ WriteAudioFrame(m).count = m.count + 1
  BY DEF WriteAudioFrame, MuxState

LEMMA FirstWritten ==
    ASSUME NEW f \in Nat
    PROVE  LET m == WriteAudioFrame(BeginSegment(f))
           IN  m \in MuxState /\ m.started /\ m.first = f /\ m.count = 1
<1> DEFINE b == BeginSegment(f)
<1>1. b \in MuxState /\ b.started /\ b.first = f /\ b.count = 0
  BY DEF BeginSegment, MuxState
<1> HIDE DEF b
<1>2. /\ WriteAudioFrame(b) \in MuxState /\ WriteAudioFrame(b).started
      /\ WriteAudioFrame(b).first = f /\ WriteAudioFrame(b).count = 0 + 1
  BY <1>1, FrameWritten
<1>3. 0 + 1 = 1
  OBVIOUS
<1> QED BY <1>2, <1>3 DEF b

LEMMA MuxFrameKeeps == ASSUME PlaylistInv, MuxFrame PROVE PlaylistInv'
<1> USE PlaylistNumbers, PlaylistState DEF PlaylistInv
<1>1. /\ ~ended /\ frame < MaxFrames /\ frame' = frame + 1 /\ mux' = PushFrame(mux, frame)
      /\ UNCHANGED <<ended, playlist>>
  BY DEF MuxFrame
<1>2. /\ TargetKept' /\ NumbersHold'
      /\ (\A i \in 1..Len(playlist.segments) : Cut(playlist.segments[i]))'
  BY <1>1 DEF TargetKept, NumbersHold, ListsFull, Listed, Full, Cut, FullFrames
<1>3. ASSUME mux' \in MuxState, store' \in Store, Count(store') <= MaxSegments
      PROVE  PlaylistTypeOK'
  BY <1>1, <1>3 DEF PlaylistTypeOK
<1>4. CASE frame = 0
  <2>1. mux = [started |-> FALSE, first |-> 0, count |-> 0] /\ store = EmptyStore
    BY <1>4 DEF MuxInv, NewMuxer
  <2>2. Begun(mux, 0) = BeginSegment(0) /\ BeginSegment(0).count = 0
    BY <2>1 DEF Begun, BeginSegment
  <2>3. ~Cuts(mux, frame)
    BY <1>4, <2>2 DEF Cuts
  <2>4. /\ mux' = WriteAudioFrame(BeginSegment(0)) /\ store' = store
        /\ mux' \in MuxState /\ mux'.started /\ mux'.first = 0 /\ mux'.count = 1
    <3>1. PushFrame(mux, frame) = WriteAudioFrame(Begun(mux, 0))
      BY <1>4, <2>3, Zenon DEF PushFrame
    <3>2. LET m == WriteAudioFrame(BeginSegment(0))
          IN  m \in MuxState /\ m.started /\ m.first = 0 /\ m.count = 1
      BY FirstWritten
    <3>3. store' = store
      BY <2>3 DEF MuxFrame
    <3> QED BY <1>1, <2>2, <3>1, <3>2, <3>3
  <2>5. store' \in Store /\ Count(store') <= MaxSegments
    BY <2>4 DEF Count
  <2>6. store.next_seq * FullFrames = 0
    BY <2>1 DEF EmptyStore
  <2>7. MuxInv'
    BY <1>1, <1>4, <2>4, <2>6 DEF MuxInv, FullFrames
  <2>8. StoredInv'
    BY <1>1, <2>4 DEF StoredInv, Full, Cut, FullFrames
  <2> QED BY <1>2, <1>3, <2>4, <2>5, <2>7, <2>8
<1>5. CASE frame > 0
  <2>1. /\ mux.started /\ mux.count \in 1..FullFrames /\ frame = mux.first + mux.count
        /\ mux.first = store.next_seq * FullFrames
    BY <1>1, <1>5 DEF MuxInv
  <2>2. Begun(mux, frame) = mux /\ frame - mux.first = mux.count
    BY <2>1 DEF Begun
  <2>3. Cuts(mux, frame) <=> mux.count >= SegFrames
    <3>1. mux.count > 0
      BY <2>1
    <3> QED BY <2>2, <3>1, Zenon DEF Cuts
  <2>4. CASE Cuts(mux, frame)
    <3>1. mux.count = FullFrames
      BY <2>1, <2>3, <2>4 DEF FullFrames
    <3>2. mux' \in MuxState /\ mux'.started /\ mux'.first = frame /\ mux'.count = 1
      <4>1. PushFrame(mux, frame) = WriteAudioFrame(BeginSegment(frame))
        BY <2>4, Zenon DEF PushFrame
      <4>2. LET m == WriteAudioFrame(BeginSegment(frame))
            IN  m \in MuxState /\ m.started /\ m.first = frame /\ m.count = 1
        BY FirstWritten
      <4> QED BY <1>1, <4>1, <4>2
    <3>3. store' = Add(store, FinishSegment(mux))
      BY <2>4 DEF MuxFrame
    <3>4. /\ FinishSegment(mux) \in SegmentData /\ FinishSegment(mux).frames = FullFrames
          /\ FinishSegment(mux).first = store.next_seq * FullFrames
      BY <2>1, <3>1 DEF FinishSegment, SegmentData
    <3>5. /\ store' \in Store /\ Count(store') <= MaxSegments
          /\ store'.next_seq = store.next_seq + 1 /\ StoredInv'
      <4>1. ended' \in BOOLEAN /\ PlaylistTypeOK
        BY <1>1 DEF PlaylistTypeOK
      <4>2. FinishSegment(mux).frames \in 1..FullFrames
        BY <3>4
      <4> DEFINE data == FinishSegment(mux)
      <4> HIDE DEF data
      <4> QED BY <1>1, <3>3, <3>4, <4>1, <4>2, AddKeeps DEF data
    <3>6. (store.next_seq + 1) * FullFrames = store.next_seq * FullFrames + FullFrames
      OBVIOUS
    <3>7. frame = store'.next_seq * FullFrames
      BY <2>1, <3>1, <3>5, <3>6
    <3>8. MuxInv'
      BY <1>1, <1>5, <3>2, <3>7 DEF MuxInv, FullFrames
    <3> QED BY <1>2, <1>3, <3>2, <3>5, <3>8
  <2>5. CASE ~Cuts(mux, frame)
    <3>1. mux.count + 1 <= FullFrames
      BY <2>1, <2>3, <2>5 DEF FullFrames
    <3>2. mux' = [started |-> TRUE, first |-> mux.first, count |-> mux.count + 1]
          /\ store' = store
      <4>1. mux' = [mux EXCEPT !.count = @ + 1] /\ store' = store
        BY <1>1, <2>2, <2>5 DEF PushFrame, WriteAudioFrame, MuxFrame
      <4> QED BY <2>1, <4>1
    <3>3. MuxInv'
      <4>1. /\ mux'.started /\ mux'.count \in 1..FullFrames
            /\ frame + 1 = mux'.first + mux'.count
            /\ mux'.first = store'.next_seq * FullFrames
        <5>1. /\ mux'.started /\ mux'.first = mux.first /\ mux'.count = mux.count + 1
              /\ store' = store
          BY <3>2
        <5>2. mux.count \in Nat /\ mux.first \in Nat /\ FullFrames \in Nat
          OBVIOUS
        <5>3. mux.count + 1 \in 1..FullFrames /\ frame + 1 = mux.first + (mux.count + 1)
          <6>1. frame = mux.first + mux.count /\ mux.count \in 1..FullFrames
            BY <2>1
          <6> HIDE DEF FullFrames
          <6>2. mux.count + 1 \in 1..FullFrames
            BY <3>1, <5>2, <6>1
          <6>3. mux.first + mux.count + 1 = mux.first + (mux.count + 1)
            BY <5>2
          <6> QED BY <6>1, <6>2, <6>3
        <5> QED BY <2>1, <5>1, <5>3
      <4>2. frame + 1 # 0
        BY <1>5
      <4>3. FullFrames' = FullFrames
        BY DEF FullFrames
      <4> HIDE DEF FullFrames
      <4> QED BY <1>1, <4>1, <4>2, <4>3 DEF MuxInv
    <3>4. StoredInv'
      BY <1>1, <3>2 DEF StoredInv, Full, Cut, FullFrames
    <3>5. mux' \in MuxState /\ store' \in Store /\ Count(store') <= MaxSegments
      BY <3>2 DEF MuxState, Count
    <3> QED BY <1>2, <1>3, <3>3, <3>4, <3>5
  <2> QED BY <2>4, <2>5
<1> QED BY <1>4, <1>5

LEMMA EndKeeps == ASSUME PlaylistInv, End PROVE PlaylistInv'
<1> USE PlaylistNumbers, PlaylistState DEF PlaylistInv
<1>1. /\ ~ended /\ ended' = TRUE /\ UNCHANGED <<frame, mux, playlist>>
  BY DEF End
<1>2. /\ TargetKept' /\ NumbersHold'
      /\ (\A i \in 1..Len(playlist.segments) : Cut(playlist.segments[i]))'
  BY <1>1 DEF TargetKept, NumbersHold, ListsFull, Listed, Full, Cut, FullFrames
<1>3. CASE Flushes(mux)
  <2>1. frame > 0
    BY <1>3 DEF MuxInv, Flushes, NewMuxer
  <2>2. mux.count \in 1..FullFrames /\ mux.first = store.next_seq * FullFrames
    BY <1>1, <2>1 DEF MuxInv
  <2>3. /\ FinishSegment(mux) \in SegmentData /\ FinishSegment(mux).frames \in 1..FullFrames
        /\ FinishSegment(mux).first = store.next_seq * FullFrames
    BY <2>2 DEF FinishSegment, SegmentData
  <2>4. store' = Add(store, FinishSegment(mux))
    BY <1>3 DEF End
  <2>5. /\ store' \in Store /\ Count(store') <= MaxSegments /\ StoredInv'
    <3> HIDE DEF FullFrames
    <3> QED BY <1>1, <2>3, <2>4, AddKeeps
  <2>6. MuxInv'
    BY <1>1, <2>1, <2>2 DEF MuxInv, FullFrames
  <2>7. PlaylistTypeOK'
    BY <1>1, <2>5 DEF PlaylistTypeOK
  <2> QED BY <1>2, <2>5, <2>6, <2>7
<1>4. CASE ~Flushes(mux)
  <2>1. store' = store
    BY <1>4 DEF End
  <2>2. StoredInv' /\ MuxInv'
    BY <1>1, <2>1 DEF StoredInv, Full, Cut, FullFrames, MuxInv
  <2>3. PlaylistTypeOK'
    BY <1>1, <2>1 DEF PlaylistTypeOK
  <2> QED BY <1>2, <2>2, <2>3
<1> QED BY <1>3, <1>4

(* Arithmetic the prover needs spelled out.                                *)
LEMMA Products ==
    ASSUME NEW a \in Nat, NEW b \in Nat, NEW d \in Nat
    PROVE  /\ a * d \in Nat /\ (a + b) * d = a * d + b * d /\ (a <= b => a * d <= b * d)
           /\ a * d = d * a
  OBVIOUS

LEMMA DivBounds ==
    ASSUME NEW n \in Nat, NEW d \in Nat \ {0}, NEW q \in Nat
    PROVE  /\ n \div d \in Nat
           /\ d * q <= n => q <= n \div d
           /\ n < d * (q + 1) => n \div d <= q
<1> DEFINE x == n \div d
<1>1. n \in Int /\ d \in Int /\ d > 0
  OBVIOUS
<1>2. n = d * x + (n % d)
  BY <1>1, Z3
<1>3. n % d \in 0..(d - 1) /\ x \in Nat
  OBVIOUS
<1> HIDE DEF x
<1>4. d * x <= n /\ n < d * x + d /\ d * x \in Nat
  <2>1. d * x \in Nat
    BY <1>3
  <2> QED BY <1>2, <1>3, <2>1
<1>5. ASSUME d * q <= n PROVE q <= x
  <2>1. SUFFICES ASSUME x + 1 <= q PROVE FALSE
    BY <1>3
  <2>2. (x + 1) * d <= q * d /\ (x + 1) * d = x * d + 1 * d
    BY <1>3, <2>1, Products
  <2>3. x * d = d * x /\ q * d = d * q
    BY <1>3
  <2> QED BY <1>4, <1>5, <2>2, <2>3
<1>6. ASSUME n < d * (q + 1) PROVE x <= q
  <2>1. SUFFICES ASSUME q + 1 <= x PROVE FALSE
    BY <1>3
  <2>2. (q + 1) * d <= x * d
    BY <1>3, <2>1, Products
  <2>3. x * d = d * x /\ (q + 1) * d = d * (q + 1) /\ d * (q + 1) \in Nat
    BY <1>3
  <2> QED BY <1>4, <1>6, <2>2, <2>3
<1> QED BY <1>3, <1>5, <1>6 DEF x

(* No segment is longer than a full one, and its target no shorter.        *)
LEMMA TargetIs ==
    ASSUME NEW s \in Seq(Segment), \A i \in 1..Len(s) : s[i].frames \in 1..FullFrames
    PROVE  /\ Target(s) \in Nat
           /\ (\E i \in 1..Len(s) : Full(s[i])) => Target(s) = (FullFrames * Samples) \div SampleRate
<1> USE PlaylistNumbers
<1> DEFINE full == (FullFrames * Samples) \div SampleRate
           all == {Duration(s[i]) \div SampleRate : i \in DOMAIN s}
<1>1. Len(s) \in Nat /\ DOMAIN s = 1..Len(s)
  OBVIOUS
<1>2. full \in Nat
  <2>1. FullFrames * Samples \in Nat
    <3> HIDE DEF FullFrames
    <3> QED OBVIOUS
  <2> QED BY <2>1, DivBounds
<1>3. ASSUME NEW i \in 1..Len(s)
      PROVE  Duration(s[i]) \div SampleRate \in 0..full
  <2> DEFINE d == s[i].frames * Samples
             f == FullFrames * Samples
  <2>1. s[i].frames \in Nat /\ s[i].frames <= FullFrames
    <3> HIDE DEF FullFrames
    <3> QED OBVIOUS
  <2>2. d <= f /\ d \in Nat /\ f \in Nat
    BY <2>1, Products
  <2> HIDE DEF d, f
  <2>3. /\ d = SampleRate * (d \div SampleRate) + (d % SampleRate) /\ d % SampleRate \in 0..(SampleRate - 1)
        /\ d \div SampleRate \in Nat
    BY <2>2, Quotient
  <2>4. SampleRate * (d \div SampleRate) <= f
    <3> DEFINE p == SampleRate * (d \div SampleRate)
               r == d % SampleRate
    <3>1. p \in Nat /\ r \in Nat /\ d = p + r
      <4>1. d \div SampleRate \in Nat /\ SampleRate \in Nat
        BY <2>3
      <4>2. p \in Nat
        BY <4>1, Products
      <4> QED BY <2>3, <4>2
    <3> HIDE DEF p, r
    <3> QED BY <2>2, <3>1 DEF p
  <2>5. d \div SampleRate <= f \div SampleRate /\ f \div SampleRate \in Nat
    BY <2>2, <2>3, <2>4, DivBounds
  <2> QED BY <2>3, <2>5 DEF d, f, Duration
<1>4. CASE s = << >>
  BY <1>1, <1>4 DEF Target
<1>5. CASE s # << >>
  <2>1. Target(s) = Max(all)
    BY <1>5 DEF Target
  <2>2. all \in SUBSET (0..full) /\ all # {}
    <3>1. Len(s) # 0
      BY <1>5
    <3>2. 1 \in DOMAIN s
      BY <1>1, <3>1
    <3> QED BY <1>1, <1>3, <3>2
  <2>3. Max(all) \in all
    BY <1>2, <2>2, MaxIn
  <2>4. ASSUME NEW i \in 1..Len(s), Full(s[i]) PROVE Max(all) = full
    <3>1. full \in all
      BY <1>1, <2>4 DEF Full, Duration
    <3>2. \A y \in all : full >= y
      BY <1>2, <2>2
    <3>3. all \in SUBSET Nat
      BY <1>2, <2>2
    <3> HIDE DEF all, full
    <3> QED BY <3>1, <3>2, <3>3, MaxIs
  <2> HIDE DEF all
  <2>5. Target(s) \in Nat
    <3> HIDE DEF full
    <3>1. Max(all) \in 0..full
      BY <2>2, <2>3
    <3> QED BY <1>2, <2>1, <3>1
  <2> QED BY <2>1, <2>4, <2>5
<1> QED BY <1>4, <1>5

LEMMA ServeKeeps == ASSUME PlaylistInv, Serve PROVE PlaylistInv'
<1> USE DEF PlaylistInv
<1>0. /\ store \in Store /\ Len(store.segments) \in Nat /\ store.next_seq \in Nat
      /\ DOMAIN store.segments = 1..Len(store.segments)
      /\ \A i \in 1..Len(store.segments) : store.segments[i] \in Segment
  BY PlaylistState
<1>1. /\ playlist' = [target |-> Target(store.segments), sequence |-> FirstSeq(store),
                      segments |-> store.segments]
      /\ UNCHANGED <<frame, mux, store, ended>>
  BY DEF Serve
<1>2. /\ playlist'.target = Target(store.segments) /\ playlist'.sequence = FirstSeq(store)
      /\ playlist'.segments = store.segments
  BY <1>1
<1>3. MuxInv' /\ StoredInv'
  BY <1>1 DEF MuxInv, StoredInv, Full, Cut, FullFrames
<1>4. store.segments \in Seq(Segment)
  BY <1>0 DEF Store
<1>5. /\ Target(store.segments) \in Nat
      /\ (\E i \in 1..Len(store.segments) : Full(store.segments[i])) =>
            Target(store.segments) = (FullFrames * Samples) \div SampleRate
  BY <1>4, TargetIs DEF StoredInv, Cut
<1>6. FirstSeq(store) \in Nat
      /\ \A i \in 1..Len(store.segments) :
            store.segments[i].seq = FirstSeq(store) + i - 1
  <2>1. CASE store.segments = << >>
    BY <1>0, <2>1 DEF FirstSeq
  <2>2. CASE store.segments # << >>
    <3>1. 1 \in 1..Len(store.segments)
      BY <1>4, <2>2
    <3>2. FirstSeq(store) = store.segments[1].seq
      BY <1>4, <2>2, <3>1 DEF FirstSeq
    <3>3. /\ FirstSeq(store) \in Nat
          /\ FirstSeq(store) + Len(store.segments) + 1 = store.next_seq + 1
      BY <1>0, <3>1, <3>2 DEF StoredInv, Segment
    <3>4. ASSUME NEW i \in 1..Len(store.segments)
          PROVE  store.segments[i].seq = FirstSeq(store) + i - 1
      <4>1. /\ store.segments[i].seq + Len(store.segments) + 1 = store.next_seq + i
            /\ store.segments[i].seq \in Nat
        BY <1>0 DEF StoredInv, Segment
      <4> DEFINE n == Len(store.segments)
                 first == FirstSeq(store)
                 last == store.next_seq
                 seq == store.segments[i].seq
      <4>2. /\ n \in Nat /\ first \in Nat /\ last \in Nat /\ seq \in Nat /\ i \in Nat
            /\ first + n + 1 = last + 1 /\ seq + n + 1 = last + i
        BY <1>0, <3>3, <4>1
      <4> HIDE DEF n, first, last, seq
      <4>3. seq = first + i - 1
        BY <4>2
      <4> QED BY <4>3 DEF seq, first
    <3> QED BY <3>3, <3>4
  <2> QED BY <2>1, <2>2
<1>7. PlaylistTypeOK'
  BY <1>1, <1>4, <1>5, <1>6 DEF PlaylistTypeOK
<1>8. TargetKept'
  <2>1. ASSUME ListsFull' PROVE \E i \in 1..Len(store.segments) : Full(store.segments[i])
    BY <1>0, <1>2, <2>1 DEF ListsFull, Listed, Full, FullFrames
  <2> QED BY <1>2, <1>5, <2>1 DEF TargetKept, FullFrames
<1>9. NumbersHold'
  <2>1. ASSUME NEW i \in 1..Len(store.segments)
        PROVE  /\ store.segments[i].seq = FirstSeq(store) + i - 1
               /\ store.segments[i].first = store.segments[i].seq * FullFrames
    BY <1>6 DEF StoredInv, Cut
  <2> QED BY <1>0, <1>2, <2>1 DEF NumbersHold, FullFrames
<1>10. (\A i \in 1..Len(playlist.segments) : Cut(playlist.segments[i]))'
  BY <1>2 DEF StoredInv, Cut, FullFrames
<1> QED BY <1>3, <1>7, <1>8, <1>9, <1>10

LEMMA PlaylistStepInv ==
    ASSUME PlaylistInv, [PlaylistNext]_playlistVars PROVE PlaylistInv'
<1>1. CASE UNCHANGED playlistVars
  BY <1>1 DEF PlaylistInv, playlistVars, PlaylistTypeOK, Count, MuxInv, StoredInv, TargetKept,
              NumbersHold, ListsFull, Listed, Full, Cut, FullFrames
<1> QED BY <1>1, MuxFrameKeeps, EndKeeps, ServeKeeps DEF PlaylistNext

(* Every playlist that is served is one, also of the longest stream.       *)
THEOREM PlaylistTypeCorrect == PlaylistSpec => []PlaylistTypeOK
<1>1. PlaylistInv => PlaylistTypeOK
  BY DEF PlaylistInv
<1> QED BY <1>1, PlaylistInitInv, PlaylistStepInv, PTL DEF PlaylistSpec

(* The pts of a full segment last as long as it is meant to, and less than *)
(* a frame longer.                                                         *)
LEMMA FullLasts ==
    /\ FullFrames * PtsStep \in Nat
    /\ SegmentDuration <= FullFrames * PtsStep
    /\ FullFrames * PtsStep <= SegmentDuration + PtsStep
<1> USE PlaylistNumbers
<1> HIDE DEF PtsStep
<1> DEFINE n == SegmentDuration + PtsStep - 1
           q == n \div PtsStep
           r == n % PtsStep
           p == PtsStep * q
<1>1. n \in Nat
  OBVIOUS
<1>2. q \in Nat /\ r \in 0..(PtsStep - 1) /\ n = PtsStep * q + r
  <2> HIDE DEF n
  <2> QED BY <1>1, Quotient
<1>3. q = SegFrames
  BY PlaylistAssumption
<1> HIDE DEF q, r
<1>4. p \in Nat /\ q * PtsStep = p
  BY <1>2, Products
<1> HIDE DEF p
<1>5. SegmentDuration + PtsStep - 1 = p + r
  BY <1>2 DEF n, p
<1>6. SegmentDuration <= p /\ p <= SegmentDuration + PtsStep
  BY <1>2, <1>4, <1>5
<1>7. CASE SegFrames = 0
  <2>1. FullFrames = 1 /\ p = 0
    <3>1. q * PtsStep = 0
      BY <1>3, <1>7
    <3> QED BY <1>4, <1>7, <3>1 DEF FullFrames
  <2>2. FullFrames * PtsStep = PtsStep
    BY <2>1
  <2> QED BY <1>6, <2>1, <2>2
<1>8. CASE SegFrames # 0
  <2>1. FullFrames * PtsStep = p
    BY <1>3, <1>4, <1>8 DEF FullFrames
  <2> QED BY <1>4, <1>6, <2>1
<1> QED BY <1>7, <1>8

(* A factor is taken out of both sides.                                    *)
LEMMA Cancelled ==
    ASSUME NEW a \in Nat, NEW b \in Nat, NEW c \in Nat \ {0}
    PROVE  /\ c * a <= c * b => a <= b
           /\ c * a < c * b => a < b
<1>1. ASSUME b < a PROVE c * b + c <= c * a /\ c * b \in Nat
  <2>1. (b + 1) * c <= a * c /\ (b + 1) * c = b * c + 1 * c
    BY <1>1, Products
  <2>2. a * c = c * a /\ b * c = c * b /\ c * b \in Nat /\ 1 * c = c
    OBVIOUS
  <2> QED BY <2>1, <2>2
<1>2. ASSUME c * a <= c * b PROVE a <= b
  <2>1. SUFFICES ASSUME b < a PROVE FALSE
    OBVIOUS
  <2>2. c * b + c <= c * a /\ c * b \in Nat /\ c * a \in Nat
    BY <1>1, <2>1
  <2> QED BY <1>2, <2>2
<1>3. ASSUME c * a < c * b PROVE a < b
  <2>1. a <= b
    <3>1. c * a \in Nat /\ c * b \in Nat
      OBVIOUS
    <3> QED BY <1>2, <1>3, <3>1
  <2>2. a # b
    BY <1>3
  <2> QED BY <2>1, <2>2
<1> QED BY <1>2, <1>3

(* The pts fall behind the audio by less than a tick a frame.              *)
LEMMA PtsBehind ==
    ASSUME NEW n \in Nat
    PROVE  /\ (n * PtsStep) * SampleRate \in Nat /\ (n * Samples) * Clock \in Nat
           /\ (n * PtsStep) * SampleRate <= (n * Samples) * Clock
           /\ (n * Samples) * Clock <= (n * PtsStep + n) * SampleRate
<1> USE PlaylistNumbers
<1> DEFINE x == Samples * Clock
           y == PtsStep * SampleRate
           r == x % SampleRate
<1>1. x \in Nat
  BY Products
<1>2. PtsStep = x \div SampleRate
  BY DEF PtsStep
<1>3. x = SampleRate * PtsStep + r /\ r \in 0..(SampleRate - 1)
  <2> HIDE DEF x
  <2> QED BY <1>1, <1>2, Quotient
<1> HIDE DEF r, PtsStep
<1>4. y \in Nat /\ y = SampleRate * PtsStep
  BY Products
<1> HIDE DEF x, y
<1>5. y <= x /\ x <= y + SampleRate
  BY <1>1, <1>3, <1>4
<1>6. y * n <= x * n /\ x * n <= (y + SampleRate) * n
      /\ (y + SampleRate) * n = y * n + SampleRate * n
  BY <1>1, <1>4, <1>5, Products
<1>7. (n * PtsStep) * SampleRate = y * n
  <2>1. (n * PtsStep) * SampleRate = n * (PtsStep * SampleRate)
    OBVIOUS
  <2>2. n * y = y * n
    BY <1>4
  <2> QED BY <2>1, <2>2 DEF y
<1>8. (n * Samples) * Clock = x * n
  <2>1. (n * Samples) * Clock = n * (Samples * Clock)
    OBVIOUS
  <2>2. n * x = x * n
    BY <1>1
  <2> QED BY <2>1, <2>2 DEF x
<1>9. (n * PtsStep + n) * SampleRate = (n * PtsStep) * SampleRate + n * SampleRate
  <2>1. n * PtsStep \in Nat
    BY Products
  <2> QED BY <2>1, Products
<1>10. y * n \in Nat /\ x * n \in Nat /\ SampleRate * n = n * SampleRate
  BY <1>1, <1>4, Products
<1> QED BY <1>6, <1>7, <1>8, <1>9, <1>10

(* A full segment is no shorter than it is meant to be, and longer by less *)
(* than half a second.                                                     *)
LEMMA FullSeconds ==
    ASSUME NEW k \in Nat, SegmentDuration = Clock * k, OvershootsLittle
    PROVE  /\ SampleRate * k <= FullFrames * Samples
           /\ 2 * (FullFrames * Samples) + SampleRate < (2 * SampleRate) * (k + 1)
<1> USE PlaylistNumbers
<1> DEFINE w == FullFrames
           pts == w * PtsStep
           f == w * Samples
           d == Clock * k
           e == SampleRate * k
<1>1. /\ pts \in Nat /\ d <= pts /\ pts <= d + PtsStep
  BY FullLasts
<1>2. w \in Nat /\ 2 * (PtsStep + w) < Clock
  BY DEF OvershootsLittle
<1>3. /\ pts * SampleRate \in Nat /\ f * Clock \in Nat /\ pts * SampleRate <= f * Clock
      /\ f * Clock <= (pts + w) * SampleRate
  BY <1>2, PtsBehind
<1>4. f \in Nat /\ d \in Nat /\ e \in Nat
  BY Products
<1>5. d * SampleRate = Clock * e
  OBVIOUS
<1> HIDE DEF w, pts, f, d, e, PtsStep
<1>6. Clock * e <= Clock * f
  <2>1. d * SampleRate <= pts * SampleRate /\ d * SampleRate \in Nat
    BY <1>1, <1>4, Products
  <2>2. f * Clock = Clock * f
    BY <1>4
  <2> QED BY <1>3, <1>5, <2>1, <2>2
<1>7. e <= f
  BY <1>4, <1>6, Cancelled
<1>8. Clock * (2 * f) < Clock * (2 * e + SampleRate)
  <2>1. 2 * (pts + w) + 1 <= 2 * d + Clock
    BY <1>1, <1>2, <1>4
  <2> DEFINE a == 2 * (pts + w)
             b == 2 * d + Clock
  <2>2. a \in Nat /\ b \in Nat /\ a + 1 <= b
    BY <1>1, <1>2, <1>4, <2>1
  <2>3. a * SampleRate = 2 * ((pts + w) * SampleRate)
    BY <1>1, <1>2
  <2>4. b * SampleRate = 2 * (d * SampleRate) + Clock * SampleRate
    BY <1>4
  <2> HIDE DEF a, b
  <2>5. (a + 1) * SampleRate <= b * SampleRate
        /\ (a + 1) * SampleRate = a * SampleRate + 1 * SampleRate
        /\ a * SampleRate \in Nat /\ b * SampleRate \in Nat
    BY <2>2, Products
  <2>6. a * SampleRate < b * SampleRate
    BY <2>5
  <2>7. Clock * (2 * f) = 2 * (f * Clock)
    BY <1>4
  <2>8. Clock * (2 * e + SampleRate) = 2 * (Clock * e) + Clock * SampleRate
    BY <1>4
  <2>9. (pts + w) * SampleRate \in Nat
    BY <1>1, <1>2, Products
  <2>10. 2 * (f * Clock) <= 2 * ((pts + w) * SampleRate)
    BY <1>3, <2>9
  <2> DEFINE g == f * Clock
             h == Clock * e
             m == (pts + w) * SampleRate
             c == Clock * SampleRate
  <2>11. 2 * g <= 2 * m /\ 2 * m < 2 * h + c
    BY <1>5, <2>3, <2>4, <2>6, <2>10
  <2>12. g \in Nat /\ m \in Nat /\ h \in Nat /\ c \in Nat
    BY <1>3, <1>4, <2>9, Products
  <2> HIDE DEF g, h, m, c
  <2>13. 2 * g < 2 * h + c
    BY <2>11, <2>12
  <2> QED BY <2>7, <2>8, <2>13 DEF g, h, c
<1>9. 2 * f < 2 * e + SampleRate
  <2>1. 2 * f \in Nat /\ 2 * e + SampleRate \in Nat
    BY <1>4
  <2> QED BY <1>8, <2>1, Cancelled
<1>10. (2 * SampleRate) * (k + 1) = 2 * e + 2 * SampleRate
  BY DEF e
<1>11. 2 * f + SampleRate < (2 * SampleRate) * (k + 1)
  BY <1>4, <1>9, <1>10
<1> QED BY <1>7, <1>11 DEF e, f, w

LEMMA TargetIsEnough == ASSUME PlaylistInv PROVE TargetCovers
<1> USE PlaylistNumbers DEF PlaylistInv
<1> SUFFICES ASSUME SegmentDuration % Clock = 0, OvershootsLittle, ListsFull, NEW s \in Listed
             PROVE  (2 * Duration(s) + SampleRate) \div (2 * SampleRate) <= playlist.target
  BY DEF TargetCovers, StandardTarget
<1> DEFINE k == SegmentDuration \div Clock
           f == FullFrames * Samples
           d == Duration(s)
<1>1. k \in Nat /\ SegmentDuration = Clock * k
  <2>1. k \in Nat /\ SegmentDuration = Clock * k + (SegmentDuration % Clock)
    BY Quotient
  <2>2. Clock * k \in Nat
    BY <2>1, Products
  <2> QED BY <2>1, <2>2
<1>2. SampleRate * k <= f /\ 2 * f + SampleRate < (2 * SampleRate) * (k + 1)
  <2> HIDE DEF k
  <2> QED BY <1>1, FullSeconds
<1>3. s.frames \in Nat /\ s.frames <= FullFrames
  <2>1. PICK i \in 1..Len(playlist.segments) : s = playlist.segments[i]
    BY PlaylistState DEF Listed
  <2>2. s.frames \in 1..FullFrames
    BY <2>1 DEF Cut
  <2> HIDE DEF FullFrames
  <2> QED BY <2>2
<1>4. d \in Nat /\ d <= f /\ f \in Nat
  BY <1>3, Products DEF Duration
<1>5. playlist.target = f \div SampleRate
  BY DEF TargetKept
<1> HIDE DEF k, f, d
<1>6. k <= f \div SampleRate /\ f \div SampleRate \in Nat
  BY <1>1, <1>2, <1>4, DivBounds
<1>7. (2 * d + SampleRate) \div (2 * SampleRate) <= k
      /\ (2 * d + SampleRate) \div (2 * SampleRate) \in Nat
  <2> DEFINE a == 2 * d + SampleRate
             b == 2 * SampleRate
  <2>1. b * (k + 1) \in Nat
    BY <1>1
  <2>2. a \in Nat /\ b \in Nat \ {0} /\ a < b * (k + 1)
    BY <1>2, <1>4, <2>1
  <2> HIDE DEF a, b
  <2>3. a \div b <= k /\ a \div b \in Nat
    BY <1>1, <2>2, DivBounds
  <2> QED BY <2>3 DEF a, b
<1> QED BY <1>1, <1>5, <1>6, <1>7 DEF d

LEMMA BufferIsLong == ASSUME PlaylistInv PROVE BufferHoldsItsTime
<1> USE PlaylistNumbers DEF PlaylistInv
<1> DEFINE s == store.segments
           n == Len(s)
           w == FullFrames
<1> SUFFICES ASSUME n = MaxSegments, ~ended
             PROVE  (s[n].first + s[n].frames - s[1].first) * Samples * Clock
                        >= MaxSegments * SegmentDuration * SampleRate
  BY DEF BufferHoldsItsTime
<1>1. n \in Nat \ {0} /\ 1 \in 1..n /\ n \in 1..n /\ store.next_seq \in Nat
  BY PlaylistState
<1>2. /\ s[1].first = s[1].seq * w /\ s[1].seq + n + 1 = store.next_seq + 1
      /\ s[n].first = s[n].seq * w /\ s[n].seq + n + 1 = store.next_seq + n
      /\ s[n].frames = w
  BY <1>1 DEF StoredInv, Cut, Full
<1>3. s[1].seq \in Nat /\ s[n].seq \in Nat
  BY <1>1, PlaylistState DEF Segment
<1> DEFINE a == s[1].seq
           z == s[n].seq
<1>4. a \in Nat /\ z \in Nat /\ z = a + (n - 1) /\ n - 1 \in Nat
  <2> DEFINE x == store.next_seq
  <2>1. a + n + 1 = x + 1 /\ z + n + 1 = x + n
    BY <1>2
  <2>2. a \in Nat /\ z \in Nat /\ n \in Nat \ {0} /\ x \in Nat
    BY <1>1, <1>3
  <2> HIDE DEF a, z, n, x
  <2> QED BY <2>1, <2>2
<1>5. /\ s[1].first = a * w /\ s[n].first = z * w
  BY <1>2
<1> HIDE DEF a, z, n, w
<1>6. w \in Nat
  BY DEF w
<1>7. /\ z * w = a * w + (n - 1) * w /\ (n - 1) * w + w = n * w
      /\ a * w \in Nat /\ (n - 1) * w \in Nat /\ n * w \in Nat
  BY <1>1, <1>4, <1>6
<1>8. s[n].first + s[n].frames - s[1].first = n * w
  BY <1>2, <1>5, <1>6, <1>7
<1>9. n * SegmentDuration <= (n * w) * PtsStep
  <2> DEFINE x == w * PtsStep
  <2>1. x \in Nat /\ SegmentDuration <= x
    BY FullLasts DEF w
  <2>2. (n * w) * PtsStep = n * x
    BY <1>1, <1>6
  <2> HIDE DEF x
  <2>3. SegmentDuration * n <= x * n
    BY <1>1, <2>1, Products
  <2>4. SegmentDuration * n = n * SegmentDuration /\ x * n = n * x
    BY <1>1, <2>1
  <2> QED BY <2>2, <2>3, <2>4
<1>10. n * SegmentDuration * SampleRate <= (n * w) * Samples * Clock
  <2> DEFINE x == n * SegmentDuration
             y == (n * w) * PtsStep
  <2>1. x \in Nat /\ y \in Nat /\ x <= y
    BY <1>1, <1>7, <1>9, Products
  <2>2. y * SampleRate <= (n * w) * Samples * Clock /\ y * SampleRate \in Nat
        /\ (n * w) * Samples * Clock \in Nat
    BY <1>7, PtsBehind
  <2> HIDE DEF x, y
  <2>3. x * SampleRate <= y * SampleRate /\ x * SampleRate \in Nat
    BY <2>1, Products
  <2>4. x * SampleRate <= (n * w) * Samples * Clock
    BY <2>2, <2>3
  <2> QED BY <2>4 DEF x
<1>11. /\ n * SegmentDuration * SampleRate \in Nat /\ (n * w) * Samples * Clock \in Nat
       /\ n = MaxSegments
  <2>1. n * SegmentDuration \in Nat
    BY <1>1, Products
  <2> QED BY <1>7, <2>1, Products, PtsBehind DEF n
<1> QED BY <1>8, <1>10, <1>11

(* Target, numbers and length of the buffer are what they are said to be,  *)
(* for any duration of segments and any ring buffer.                       *)
THEOREM PlaylistsAreTrue == PlaylistSpec => []PlaylistsTrue
<1>1. PlaylistInv => PlaylistsTrue
  BY TargetIsEnough, BufferIsLong DEF PlaylistInv, PlaylistsTrue
<1> QED BY <1>1, PlaylistInitInv, PlaylistStepInv, PTL DEF PlaylistSpec

-----------------------------------------------------------------------------
(* A listener over minutes (module Listening).                             *)

(* A stream that goes on has not been longer than the bound.               *)
MadeInv == live => made <= MaxMade

(* What is idle is found out by the scan that comes next.                  *)
ScannedInTime == there => idle + nap <= GracePeriod + MonitorPeriod

(* What the HTTP cache has of this pipeline it got by a request, and what  *)
(* it has of another is older than a removal and all that was made since.  *)
KeptInv ==
    \A k \in kept :
        /\ ~k.old => there /\ idle <= k.age
        /\ k.old => k.age >= GracePeriod + 1
        /\ k.old /\ there /\ (made > 0 \/ part > 0) => k.age >= GracePeriod + 2

(* A listener of a stream that goes on neither falls behind nor gets ahead *)
(* of what is made.                                                        *)
NextInv == listener = "plays" /\ own /\ live => Oldest <= next /\ next <= made

(* One that has heard all there is, none of it long ago, asked for the     *)
(* last segment since this one was begun.                                  *)
HeardInv ==
    /\ there /\ live /\ made = 0 => idle <= part
    /\ listener = "plays" /\ own /\ live /\ heard.age = 0 /\ next = made => idle <= part

(* The stream's age: nothing is idle for longer, and while somebody waits  *)
(* it is no more than the start takes.                                     *)
StreamAge == made * SegTicks + part
AgeInv ==
    /\ there /\ live => idle <= StreamAge
    /\ listener = "waits" /\ own /\ live /\ polls > 0 /\ StartFits =>
          StreamAge <= Needed * SegTicks

ListeningInv ==
    /\ ListeningTypeOK /\ MadeInv /\ ScannedInTime /\ KeptInv /\ StaleNeedsPause
    /\ NeverServedBeyondRing /\ NextInv /\ HeardInv /\ AgeInv

-----------------------------------------------------------------------------

LEMMA SettingNumbers ==
    ASSUME setting \in Settings
    PROVE  /\ GracePeriod \in Nat /\ Needed \in Nat /\ MaxAge \in Nat /\ MaxEnds \in Nat
           /\ MonitorPeriod \in Nat \ {0} /\ MaxPolls \in Nat \ {0}
           /\ SegTicks \in Nat \ {0} /\ RingSize \in Nat \ {0} /\ MaxMade \in Nat \ {0}
  BY ListeningAssumption
     DEF GracePeriod, Needed, MaxAge, MaxEnds, MonitorPeriod, MaxPolls, SegTicks, RingSize,
         MaxMade

(* The settings do not change.                                             *)
LEMMA SettingKept ==
    ASSUME UNCHANGED setting
    PROVE  /\ GracePeriod' = GracePeriod /\ Needed' = Needed /\ MaxAge' = MaxAge
           /\ MaxEnds' = MaxEnds /\ MonitorPeriod' = MonitorPeriod /\ MaxPolls' = MaxPolls
           /\ SegTicks' = SegTicks /\ RingSize' = RingSize /\ MaxMade' = MaxMade
           /\ StartFits' = StartFits
  BY DEF GracePeriod, Needed, MaxAge, MaxEnds, MonitorPeriod, MaxPolls, SegTicks, RingSize,
         MaxMade, StartFits

LEMMA StateNumbers ==
    ASSUME ListeningTypeOK
    PROVE  /\ made \in Nat /\ made <= MaxMade + 1 /\ part \in Nat /\ part < SegTicks
           /\ idle \in Nat /\ nap \in Nat /\ nap <= MonitorPeriod /\ polls \in Nat
           /\ left \in Nat /\ left <= RingSize /\ next \in Nat
           /\ heard.age \in Nat /\ heard.age <= MaxAge
           /\ Oldest \in Nat /\ Oldest <= made /\ made - Oldest <= RingSize
           /\ \A k \in kept : /\ k.seq \in Nat /\ k.age \in Nat /\ k.age <= MaxAge
                              /\ k.old \in BOOLEAN
                              /\ k = [seq |-> k.seq, old |-> k.old, age |-> k.age]
<1> USE SettingNumbers DEF ListeningTypeOK
<1>1. /\ made \in Nat /\ made <= MaxMade + 1 /\ part \in Nat /\ part < SegTicks
      /\ idle \in Nat /\ nap \in Nat /\ nap <= MonitorPeriod /\ polls \in Nat
      /\ left \in Nat /\ left <= RingSize /\ next \in Nat
  OBVIOUS
<1>2. heard.age \in Nat /\ heard.age <= MaxAge
  OBVIOUS
<1>3. Oldest \in Nat /\ Oldest <= made /\ made - Oldest <= RingSize
  BY <1>1 DEF Oldest
<1>4. ASSUME NEW k \in kept
      PROVE  /\ k.seq \in Nat /\ k.age \in Nat /\ k.age <= MaxAge /\ k.old \in BOOLEAN
             /\ k = [seq |-> k.seq, old |-> k.old, age |-> k.age]
  <2>1. k \in [seq : 0..MaxMade, old : BOOLEAN, age : 0..MaxAge]
    BY <1>4
  <2> QED BY <2>1
<1> QED BY <1>1, <1>2, <1>3, <1>4

(* The flags of a state, and of one that comes after it.                   *)
LEMMA FlagsKept ==
    ASSUME ListeningTypeOK, there' = there, live' \in {live, FALSE}, own' \in {own, FALSE}
    PROVE  {there', live', own'} \subseteq BOOLEAN /\ (live' => there') /\ (own' => there')
<1>1. there \in BOOLEAN /\ live \in BOOLEAN /\ own \in BOOLEAN
  BY DEF ListeningTypeOK
<1>2. there' \in BOOLEAN /\ live' \in BOOLEAN /\ own' \in BOOLEAN
  BY <1>1
<1>3. (live => there) /\ (own => there)
  BY DEF ListeningTypeOK
<1> QED BY <1>2, <1>3

LEMMA StoredBounds ==
    ASSUME ListeningTypeOK
    PROVE  Stored \in Nat /\ Stored <= RingSize
  BY StateNumbers, SettingNumbers DEF Stored, ListeningTypeOK

(* A segment's worth of seconds more.                                      *)
LEMMA NextSegment ==
    ASSUME NEW n \in Nat, NEW t \in Nat
    PROVE  (n + 1) * t = n * t + t /\ n * t \in Nat
  OBVIOUS

LEMMA ManySegments ==
    ASSUME NEW n \in Nat, NEW m \in Nat, NEW t \in Nat, n <= m
    PROVE  n * t <= m * t
  OBVIOUS

LEMMA ListeningInitInv == ASSUME ListeningInit PROVE ListeningInv
<1> USE SettingNumbers DEF ListeningInit
<1>1. ListeningTypeOK
  <2>1. /\ 0 \in 0..(MaxMade + 1) /\ 0 \in 0..(SegTicks - 1) /\ 0 \in Nat
        /\ MonitorPeriod \in 0..MonitorPeriod /\ 0 \in 0..MaxEnds /\ 0 \in 0..MaxPolls
        /\ 0 \in 0..RingSize /\ 0 \in 0..MaxAge
    OBVIOUS
  <2>2. heard \in [old : BOOLEAN, age : 0..MaxAge]
    BY <2>1
  <2> QED BY <2>1, <2>2 DEF ListeningTypeOK
<1>2. /\ MadeInv /\ ScannedInTime /\ KeptInv /\ StaleNeedsPause
      /\ NeverServedBeyondRing /\ NextInv /\ HeardInv /\ AgeInv
  BY DEF MadeInv, ScannedInTime, KeptInv, StaleNeedsPause, NeverServedBeyondRing, NextInv,
         HeardInv, AgeInv
<1> QED BY <1>1, <1>2 DEF ListeningInv

(* Steps of the listener that leave pipeline and HTTP cache alone.         *)
LEMMA WalkingKeeps ==
    ASSUME ListeningInv, UNCHANGED setting,
           Join \/ Leave \/ GetPlaylist \/ TimeOut \/ Reload
    PROVE  ListeningInv'
<1> USE SettingNumbers, SettingKept, StateNumbers DEF ListeningInv, pipeline
<1>t. setting \in Settings /\ ListeningTypeOK
  BY DEF ListeningTypeOK
<1>1. UNCHANGED <<there, live, made, part, idle, nap, ends, kept, heard>> /\ Oldest' = Oldest
  BY <1>t DEF Join, Leave, GetPlaylist, TimeOut, Reload, Oldest
<1>2. MadeInv' /\ ScannedInTime' /\ KeptInv' /\ StaleNeedsPause'
  BY <1>1, <1>t DEF MadeInv, ScannedInTime, KeptInv, StaleNeedsPause
<1>3. (there /\ live => idle <= StreamAge)' /\ (there /\ live /\ made = 0 => idle <= part)'
  BY <1>1, <1>t DEF AgeInv, HeardInv, StreamAge
<1>4. CASE GetPlaylist
  <2>1. next' \in Nat /\ (own /\ made > 0 => next' \in Offered) /\ (~(own /\ made > 0) => next' = 0)
    <3>1. Offered \subseteq Nat
      BY <1>t DEF Offered
    <3> QED BY <1>4, <3>1 DEF GetPlaylist
  <2>2. ListeningTypeOK'
    BY <1>1, <1>4, <1>t, <2>1 DEF ListeningTypeOK, GetPlaylist
  <2>3. NeverServedBeyondRing'
    BY <1>t, <1>4, StoredBounds DEF NeverServedBeyondRing, GetPlaylist, Enough
  <2>4. NextInv'
    BY <1>t, <1>1, <1>4, <2>1 DEF NextInv, GetPlaylist, Offered, Oldest
  <2>5. HeardInv'
    <3>1. ASSUME own, live, next' = made PROVE idle <= part
      <4>1. made = 0
        BY <1>t, <2>1, <3>1 DEF Offered
      <4> QED BY <1>t, <3>1, <4>1 DEF HeardInv, ListeningTypeOK
    <3> QED BY <1>1, <1>3, <1>4, <3>1 DEF HeardInv, GetPlaylist
  <2>6. AgeInv'
    BY <1>3, <1>4 DEF AgeInv, GetPlaylist
  <2> QED BY <1>2, <2>2, <2>3, <2>4, <2>5, <2>6
<1>5. CASE Join \/ Leave \/ TimeOut \/ Reload
  <2>1. ListeningTypeOK'
    <3>1. /\ listener' \in {"asks", "off"} /\ (own' = own \/ own' = FALSE)
          /\ (polls' = polls \/ polls' = 0) /\ (left' = left \/ left' = 0)
          /\ (next' = next \/ next' = 0)
      BY <1>5 DEF Join, Leave, TimeOut, Reload
    <3>2. {there', live', own'} \subseteq BOOLEAN /\ (live' => there') /\ (own' => there')
      BY <1>1, <1>t, <3>1, FlagsKept
    <3> QED BY <1>1, <1>t, <3>1, <3>2 DEF ListeningTypeOK
  <2>2. listener' \in {"asks", "off"}
    BY <1>5 DEF Join, Leave, TimeOut, Reload
  <2>3. NeverServedBeyondRing' /\ NextInv' /\ HeardInv' /\ AgeInv'
    BY <2>2, <1>3 DEF NeverServedBeyondRing, NextInv, HeardInv, AgeInv
  <2> QED BY <1>2, <2>1, <2>3
<1> QED BY <1>4, <1>5

LEMMA RequestKeeps ==
    ASSUME ListeningInv, UNCHANGED setting, Ask
    PROVE  ListeningInv'
<1> USE SettingNumbers, SettingKept, StateNumbers DEF ListeningInv, pipeline, Ask
<1>t. setting \in Settings /\ ListeningTypeOK
  BY DEF ListeningTypeOK
<1>1. CASE there
  <2>1. UNCHANGED <<there, live, made, part, idle, nap, ends, kept, heard>>
    BY <1>1
  <2>2. ListeningTypeOK'
    BY <2>1, <1>1, <1>t DEF ListeningTypeOK
  <2>3. MadeInv' /\ ScannedInTime' /\ KeptInv' /\ StaleNeedsPause'
    BY <2>1, <1>t DEF MadeInv, ScannedInTime, KeptInv, StaleNeedsPause
  <2>4. NeverServedBeyondRing' /\ NextInv' /\ HeardInv'
    BY <2>1, <1>t DEF NeverServedBeyondRing, NextInv, HeardInv
  <2>5. AgeInv'
    BY <2>1, <1>t DEF AgeInv, StreamAge
  <2> QED BY <2>2, <2>3, <2>4, <2>5
<1>2. CASE ~there
  <2>1. /\ there' = TRUE /\ live' = TRUE /\ made' = 0 /\ part' = 0 /\ idle' = 0
        /\ UNCHANGED <<nap, ends, kept, heard>>
    BY <1>2
  <2>2. ListeningTypeOK'
    BY <2>1, <1>t DEF ListeningTypeOK
  <2>3. MadeInv' /\ ScannedInTime' /\ StaleNeedsPause'
    BY <2>1, <1>t DEF MadeInv, ScannedInTime, StaleNeedsPause
  <2>6. KeptInv'
    BY <2>1, <1>2, <1>t DEF KeptInv
  <2>4. NeverServedBeyondRing' /\ NextInv' /\ HeardInv'
    BY <2>1, <1>t DEF NeverServedBeyondRing, NextInv, HeardInv
  <2>5. AgeInv'
    <3>1. StreamAge' \in Nat
      BY <2>1, <2>2, <1>t DEF StreamAge
    <3> QED BY <2>1, <1>t, <3>1 DEF AgeInv
  <2> QED BY <2>2, <2>3, <2>4, <2>5, <2>6
<1> QED BY <1>1, <1>2

(* What it fetches, from its HTTP cache or from the server.                *)
LEMMA FetchKeeps ==
    ASSUME ListeningInv, UNCHANGED setting, FetchCached \/ Fetch
    PROVE  ListeningInv'
<1> USE SettingNumbers, SettingKept, StateNumbers DEF ListeningInv, pipeline
<1>t. setting \in Settings /\ ListeningTypeOK
  BY DEF ListeningTypeOK
<1>1. /\ UNCHANGED <<there, live, made, part, nap, ends, listener, own, polls, left>>
      /\ Oldest' = Oldest /\ next' = next + 1 /\ CanFetch
  BY <1>t DEF FetchCached, Fetch, Oldest
<1>2. /\ listener = "plays" /\ own /\ there /\ next < made /\ made > 0 /\ next' <= made
      /\ next <= MaxMade
  BY <1>1, <1>t DEF CanFetch, Offered, ListeningTypeOK
<1>3. NextInv' /\ MadeInv' /\ NeverServedBeyondRing'
  BY <1>1, <1>2, <1>t DEF NextInv, MadeInv, NeverServedBeyondRing
<1>4. CASE FetchCached
  <2>1. PICK k \in Cached : heard' = [old |-> k.old, age |-> k.age]
    BY <1>4 DEF FetchCached
  <2>2. k \in kept /\ UNCHANGED <<idle, kept>>
    BY <1>4 DEF FetchCached, Cached
  <2>3. ListeningTypeOK'
    BY <1>1, <1>t, <2>1, <2>2 DEF ListeningTypeOK
  <2>4. ScannedInTime' /\ KeptInv' /\ AgeInv'
    BY <1>1, <1>t, <2>2 DEF ScannedInTime, KeptInv, AgeInv, StreamAge
  <2>5. StaleNeedsPause'
    BY <1>2, <1>t, <2>1, <2>2 DEF KeptInv, StaleNeedsPause
  <2>6. HeardInv'
    <3>1. heard'.age = 0 => idle = 0
      BY <1>t, <2>1, <2>2 DEF KeptInv
    <3> QED BY <1>1, <1>t, <2>2, <3>1 DEF HeardInv
  <2> QED BY <1>3, <2>3, <2>4, <2>5, <2>6
<1>5. CASE Fetch
  <2>1. idle' = 0 /\ heard' = [old |-> FALSE, age |-> 0]
    BY <1>5 DEF Fetch
  <2>2. /\ kept' \subseteq kept \cup {[seq |-> next, old |-> FALSE, age |-> 0]}
    BY <1>5 DEF Fetch
  <2>3. ListeningTypeOK'
    <3>1. [seq |-> next, old |-> FALSE, age |-> 0] \in
              [seq : 0..MaxMade, old : BOOLEAN, age : 0..MaxAge]
      BY <1>t, <1>2
    <3>2. kept' \subseteq [seq : 0..MaxMade', old : BOOLEAN, age : 0..MaxAge']
      BY <1>t, <2>2, <3>1 DEF ListeningTypeOK
    <3> QED BY <1>1, <1>t, <2>1, <3>2 DEF ListeningTypeOK
  <2>4. ScannedInTime'
    BY <1>1, <1>t, <2>1 DEF ScannedInTime
  <2>5. KeptInv'
    <3>1. ASSUME NEW k \in kept'
          PROVE  /\ ~k.old => there /\ 0 <= k.age
                 /\ k.old => k.age >= GracePeriod + 1
                 /\ k.old /\ there /\ (made > 0 \/ part > 0) => k.age >= GracePeriod + 2
      <4>1. CASE k \in kept
        BY <1>t, <4>1 DEF KeptInv
      <4>2. CASE k = [seq |-> next, old |-> FALSE, age |-> 0]
        BY <1>2, <4>2
      <4> QED BY <2>2, <4>1, <4>2
    <3> QED BY <1>1, <1>t, <2>1, <3>1 DEF KeptInv
  <2>6. StaleNeedsPause' /\ HeardInv'
    BY <1>1, <1>t, <2>1 DEF StaleNeedsPause, HeardInv
  <2>7. AgeInv'
    <3>1. StreamAge \in Nat /\ StreamAge' = StreamAge
      BY <1>1, <1>t, NextSegment DEF StreamAge
    <3> QED BY <1>1, <1>2, <1>t, <2>1, <3>1 DEF AgeInv
  <2> QED BY <1>3, <2>3, <2>4, <2>5, <2>6, <2>7
<1> QED BY <1>4, <1>5

LEMMA StreamEndKeeps ==
    ASSUME ListeningInv, UNCHANGED setting, StreamEnds
    PROVE  ListeningInv'
<1> USE SettingNumbers, SettingKept, StateNumbers DEF ListeningInv, pipeline, player, StreamEnds
<1>t. setting \in Settings /\ ListeningTypeOK
  BY DEF ListeningTypeOK
<1>1. /\ UNCHANGED <<there, idle, nap, listener, own, polls, left, next, kept, heard>>
      /\ live /\ live' = FALSE /\ part' = 0
      /\ made' = IF part > 0 THEN made + 1 ELSE made
  OBVIOUS
<1>2. ListeningTypeOK'
  <2>1. made' \in 0..(MaxMade + 1) /\ ends' \in 0..MaxEnds
    BY <1>1, <1>t DEF MadeInv, ListeningTypeOK
  <2>2. {there', live', own'} \subseteq BOOLEAN /\ (live' => there') /\ (own' => there')
    BY <1>1, <1>t, FlagsKept
  <2>3. part' \in 0..(SegTicks' - 1)
    BY <1>1, <1>t
  <2> QED BY <1>1, <1>t, <2>1, <2>2, <2>3 DEF ListeningTypeOK
<1>3. /\ MadeInv' /\ ScannedInTime' /\ StaleNeedsPause' /\ NeverServedBeyondRing'
      /\ NextInv' /\ HeardInv' /\ AgeInv'
  BY <1>1, <1>t DEF MadeInv, ScannedInTime, StaleNeedsPause, NeverServedBeyondRing,
                    NextInv, HeardInv, AgeInv
<1>4. KeptInv'
  <2>1. (made' > 0 \/ part' > 0) => (made > 0 \/ part > 0)
    BY <1>1, <1>t
  <2> QED BY <1>1, <1>t, <2>1 DEF KeptInv
<1> QED BY <1>2, <1>3, <1>4

LEMMA ScanKeeps ==
    ASSUME ListeningInv, UNCHANGED setting, Scan
    PROVE  ListeningInv'
<1> USE SettingNumbers, SettingKept, StateNumbers DEF ListeningInv, pipeline
<1>t. setting \in Settings /\ ListeningTypeOK
  BY DEF ListeningTypeOK
<1>1. /\ UNCHANGED <<ends, listener, polls, next, heard>>
      /\ nap = 0 /\ nap' = MonitorPeriod
  BY DEF Scan
<1>2. CASE there /\ idle > GracePeriod
  <2>1. /\ there' = FALSE /\ live' = FALSE /\ made' = 0 /\ part' = 0 /\ idle' = 0
        /\ own' = FALSE
        /\ kept' = {[k EXCEPT !.old = TRUE] : k \in kept}
    BY <1>2 DEF Scan, RemovePipeline
  <2>2. left' \in 0..RingSize
    BY <1>2, <1>t, StoredBounds DEF Scan, RemovePipeline, ListeningTypeOK
  <2>3. ASSUME NEW j \in kept'
        PROVE  /\ j \in [seq : 0..MaxMade, old : BOOLEAN, age : 0..MaxAge]
               /\ j.old /\ j.age >= GracePeriod + 1
    <3>1. PICK k \in kept : j = [k EXCEPT !.old = TRUE]
      BY <2>1, <2>3
    <3>2. k.age >= GracePeriod + 1
      BY <1>2, <1>t DEF KeptInv
    <3>3. k \in [seq : 0..MaxMade, old : BOOLEAN, age : 0..MaxAge]
      BY <1>t DEF ListeningTypeOK
    <3> QED BY <3>1, <3>2, <3>3
  <2>4. ListeningTypeOK'
    <3>1. {there', live', own'} \subseteq BOOLEAN /\ (live' => there') /\ (own' => there')
      BY <2>1, Zenon
    <3>2. kept' \subseteq [seq : 0..MaxMade, old : BOOLEAN, age : 0..MaxAge]
      BY <2>3
    <3>3. 0 \in 0..(MaxMade + 1) /\ 0 \in 0..(SegTicks - 1) /\ 0 \in Nat
      BY <1>t
    <3> QED BY <1>1, <1>t, <2>1, <2>2, <3>1, <3>2, <3>3 DEF ListeningTypeOK
  <2>5. KeptInv'
    BY <1>t, <2>1, <2>3 DEF KeptInv
  <2>6. /\ MadeInv' /\ ScannedInTime' /\ StaleNeedsPause' /\ NeverServedBeyondRing'
        /\ NextInv' /\ HeardInv' /\ AgeInv'
    BY <1>1, <1>t, <2>1 DEF MadeInv, ScannedInTime, StaleNeedsPause, NeverServedBeyondRing,
                            NextInv, HeardInv, AgeInv
  <2> QED BY <2>4, <2>5, <2>6
<1>3. CASE ~(there /\ idle > GracePeriod)
  <2>1. UNCHANGED <<there, live, made, part, idle, own, left, kept>>
    BY <1>3 DEF Scan
  <2>2. ListeningTypeOK'
    BY <1>1, <1>t, <2>1 DEF ListeningTypeOK
  <2>3. ScannedInTime'
    BY <1>1, <1>3, <1>t, <2>1 DEF ScannedInTime
  <2>4. MadeInv' /\ KeptInv' /\ StaleNeedsPause' /\ NeverServedBeyondRing'
    BY <1>1, <1>t, <2>1 DEF MadeInv, KeptInv, StaleNeedsPause, NeverServedBeyondRing
  <2>5. NextInv' /\ HeardInv' /\ AgeInv'
    BY <1>1, <1>t, <2>1 DEF NextInv, HeardInv, AgeInv, StreamAge, Oldest
  <2> QED BY <2>2, <2>3, <2>4, <2>5
<1> QED BY <1>2, <1>3

LEMMA TickKeeps ==
    ASSUME ListeningInv, UNCHANGED setting, Tick
    PROVE  ListeningInv'
<1> USE SettingNumbers, SettingKept, StateNumbers DEF ListeningInv
<1>t. setting \in Settings /\ ListeningTypeOK
  BY DEF ListeningTypeOK
<1>1. /\ UNCHANGED <<there, live, ends, listener, own, left, next, heard>>
      /\ nap > 0 /\ nap' = nap - 1 /\ ~CanFetch /\ ~Lost
      /\ kept' = {[k EXCEPT !.age = @ + 1] : k \in {j \in kept : j.age + 1 < MaxAge}}
  BY DEF Tick
<1>2. idle' \in Nat /\ idle' <= idle + 1 /\ idle <= idle' /\ (~there => idle' = idle)
  BY <1>t DEF Tick
<1>3. ASSUME live
      PROVE  /\ made < MaxMade
             /\ \/ part + 1 = SegTicks /\ part' = 0 /\ made' = made + 1
                \/ part + 1 < SegTicks /\ part' = part + 1 /\ made' = made
  <2>1. /\ made < MaxMade /\ part' = (part + 1) % SegTicks
        /\ made' = IF part + 1 = SegTicks THEN made + 1 ELSE made
    BY <1>3 DEF Tick
  <2>2. CASE part + 1 = SegTicks
    <3>1. SegTicks % SegTicks = 0
      BY <1>t
    <3> QED BY <2>1, <2>2, <3>1
  <2>3. CASE part + 1 # SegTicks
    <3>1. part + 1 \in Nat /\ part + 1 < SegTicks
      BY <1>t, <2>3
    <3>2. (part + 1) % SegTicks = part + 1
      BY <1>t, <3>1
    <3> QED BY <2>1, <2>3, <3>1, <3>2
  <2> QED BY <2>2, <2>3
<1>4. ASSUME ~live PROVE made' = made /\ part' = part
  BY <1>4 DEF Tick
<1>5. made' \in Nat /\ made <= made' /\ part' \in 0..(SegTicks - 1)
  BY <1>3, <1>4, <1>t
<1>6. ASSUME NEW j \in kept'
      PROVE  \E k \in kept : /\ k.age + 1 < MaxAge
                             /\ j = [seq |-> k.seq, old |-> k.old, age |-> k.age + 1]
  <2>1. PICK k \in kept : k.age + 1 < MaxAge /\ j = [k EXCEPT !.age = @ + 1]
    BY <1>1
  <2> QED BY <2>1, <1>t
<1>7. ListeningTypeOK'
  <2>1. made' \in 0..(MaxMade + 1)
    BY <1>3, <1>4, <1>t
  <2>2. polls' \in 0..MaxPolls
    <3>1. polls \in 0..MaxPolls
      BY <1>t DEF ListeningTypeOK
    <3>2. (listener = "waits" => polls # MaxPolls) /\ polls' \in {polls, polls + 1}
          /\ (listener # "waits" => polls' = polls)
      BY DEF Tick
    <3> QED BY <1>t, <3>1, <3>2
  <2>3. kept' \subseteq [seq : 0..MaxMade, old : BOOLEAN, age : 0..MaxAge]
    <3>1. ASSUME NEW j \in kept'
          PROVE  j \in [seq : 0..MaxMade, old : BOOLEAN, age : 0..MaxAge]
      <4>1. PICK k \in kept : /\ k.age + 1 < MaxAge
                              /\ j = [seq |-> k.seq, old |-> k.old, age |-> k.age + 1]
        BY <1>6
      <4>2. k.seq \in 0..MaxMade
        BY <1>t DEF ListeningTypeOK
      <4>3. k.age + 1 \in 0..MaxAge /\ k.old \in BOOLEAN
        BY <1>t, <4>1
      <4> QED BY <4>1, <4>2, <4>3
    <3> QED BY <3>1
  <2>4. {there', live', own'} \subseteq BOOLEAN /\ (live' => there') /\ (own' => there')
    BY <1>1, <1>t, FlagsKept
  <2>5. nap' \in 0..MonitorPeriod
    BY <1>1, <1>t
  <2>6. /\ setting' \in Settings /\ ends' \in 0..MaxEnds' /\ left' \in 0..RingSize'
        /\ listener' \in {"off", "asks", "waits", "plays"} /\ next' \in Nat
        /\ heard' \in [old : BOOLEAN, age : 0..MaxAge']
    BY <1>1, <1>t DEF ListeningTypeOK
  <2> QED BY <1>2, <1>5, <1>t, <2>1, <2>2, <2>3, <2>4, <2>5, <2>6 DEF ListeningTypeOK
<1>8. MadeInv' /\ ScannedInTime' /\ StaleNeedsPause' /\ NeverServedBeyondRing'
  <2>1. MadeInv'
    BY <1>1, <1>3, <1>t DEF MadeInv
  <2>2. ScannedInTime'
    BY <1>1, <1>2, <1>t DEF ScannedInTime
  <2>3. StaleNeedsPause' /\ NeverServedBeyondRing'
    BY <1>1, <1>t DEF StaleNeedsPause, NeverServedBeyondRing
  <2> QED BY <2>1, <2>2, <2>3
<1>9. KeptInv'
  <2>1. ASSUME NEW j \in kept'
        PROVE  /\ ~j.old => there /\ idle' <= j.age
               /\ j.old => j.age >= GracePeriod + 2
    <3>1. PICK k \in kept : /\ k.age + 1 < MaxAge
                            /\ j = [seq |-> k.seq, old |-> k.old, age |-> k.age + 1]
      BY <1>6
    <3>2. /\ ~k.old => there /\ idle <= k.age
          /\ k.old => k.age >= GracePeriod + 1
      BY DEF KeptInv
    <3> QED BY <1>2, <1>t, <3>1, <3>2
  <2> QED BY <1>1, <1>t, <2>1 DEF KeptInv
<1>10. NextInv' /\ HeardInv'
  <2>1. ASSUME listener = "plays", own, live
        PROVE  next = made /\ Oldest' <= next
    <3>1. Oldest <= next /\ next <= made /\ ~(next \in Oldest..(made - 1))
      BY <1>1, <2>1 DEF NextInv, CanFetch, Offered
    <3>2. next = made
      BY <1>t, <3>1
    <3> QED BY <1>3, <1>t, <2>1, <3>2 DEF Oldest
  <2>2. NextInv'
    BY <1>1, <1>5, <1>t, <2>1 DEF NextInv
  <2>3. ASSUME there, live, made' = 0 PROVE idle' <= part'
    BY <1>2, <1>3, <1>t, <2>3 DEF HeardInv
  <2>4. ASSUME listener = "plays", own, live, heard.age = 0, next = made' PROVE idle' <= part'
    BY <1>2, <1>3, <1>t, <2>1, <2>4 DEF HeardInv
  <2> QED BY <1>1, <2>2, <2>3, <2>4 DEF HeardInv
<1>11. AgeInv'
  <2>1. ASSUME live PROVE StreamAge' = StreamAge + 1 /\ StreamAge \in Nat
    <3>1. made * SegTicks \in Nat /\ (made + 1) * SegTicks = made * SegTicks + SegTicks
      BY <1>t, NextSegment
    <3>2. CASE part + 1 = SegTicks /\ part' = 0 /\ made' = made + 1
      <4>1. made' * SegTicks' = made * SegTicks + SegTicks
        BY <3>1, <3>2, <1>t
      <4> QED BY <1>t, <3>1, <3>2, <4>1 DEF StreamAge
    <3>3. CASE part' = part + 1 /\ made' = made
      <4>1. made' * SegTicks' = made * SegTicks
        BY <3>3, <1>t
      <4> QED BY <1>t, <3>1, <3>3, <4>1 DEF StreamAge
    <3> QED BY <1>3, <2>1, <3>2, <3>3
  <2>2. ASSUME there, live PROVE idle' <= StreamAge'
    BY <1>2, <1>t, <2>1, <2>2 DEF AgeInv
  <2>3. ASSUME listener = "waits", own, live, StartFits
        PROVE  StreamAge' <= Needed * SegTicks
    <3>1. ~Enough
      BY <2>3 DEF Tick
    <3>2. made < Needed
      BY <1>t, <2>3, <3>1 DEF Enough, Stored, Oldest, StartFits
    <3> DEFINE old == made * SegTicks
               new == (made + 1) * SegTicks
               all == Needed * SegTicks
    <3>3. made + 1 \in Nat /\ made + 1 <= Needed /\ SegTicks \in Nat
      BY <1>t, <3>2
    <3>4. new <= all
      BY <1>t, <3>3, ManySegments
    <3>5. new = old + SegTicks /\ old \in Nat /\ new \in Nat /\ all \in Nat
      BY <1>t, <3>3, NextSegment
    <3>6. StreamAge' = old + part + 1
      BY <2>1, <2>3, <1>t DEF StreamAge
    <3> HIDE DEF old, new, all
    <3>7. StreamAge' <= all
      BY <1>t, <3>4, <3>5, <3>6
    <3> QED BY <3>7 DEF all
  <2>4. StartFits' = StartFits /\ Needed' * SegTicks' = Needed * SegTicks
    OBVIOUS
  <2> QED BY <1>1, <2>2, <2>3, <2>4 DEF AgeInv
<1> QED BY <1>7, <1>8, <1>9, <1>10, <1>11

(* A request for what is gone is one of access all the same.               *)
LEMMA MissingKeeps ==
    ASSUME ListeningInv, UNCHANGED setting, FetchMissing
    PROVE  ListeningInv'
<1> USE SettingNumbers, SettingKept, StateNumbers DEF ListeningInv
<1>t. setting \in Settings /\ ListeningTypeOK
  BY DEF ListeningTypeOK
<1>1. /\ UNCHANGED <<there, live, made, part, nap, ends, listener, own, polls, left, kept, heard>>
      /\ listener = "waits" /\ there /\ next' = 0 /\ idle' = 0
  BY DEF FetchMissing
<1>2. ListeningTypeOK'
  BY <1>1, <1>t DEF ListeningTypeOK
<1>3. MadeInv' /\ ScannedInTime' /\ KeptInv' /\ StaleNeedsPause'
  BY <1>1, <1>t DEF MadeInv, ScannedInTime, KeptInv, StaleNeedsPause
<1>4. NeverServedBeyondRing' /\ NextInv' /\ HeardInv'
  BY <1>1, <1>t DEF NeverServedBeyondRing, NextInv, HeardInv
<1>5. AgeInv'
  <2>1. StreamAge \in Nat /\ StreamAge' = StreamAge
    BY <1>1, <1>t, NextSegment DEF StreamAge
  <2> QED BY <1>1, <1>t, <2>1 DEF AgeInv
<1> QED BY <1>2, <1>3, <1>4, <1>5

LEMMA ListeningStepInv ==
    ASSUME ListeningInv, [ListeningNext]_listeningVars PROVE ListeningInv'
<1>1. CASE UNCHANGED listeningVars
  BY <1>1 DEF ListeningInv, listeningVars, events, pipeline, player, ListeningTypeOK, MadeInv,
              ScannedInTime, KeptInv, StaleNeedsPause, NeverServedBeyondRing, NextInv, HeardInv,
              AgeInv, StreamAge, StartFits, Oldest, GracePeriod, Needed, MaxAge, MaxEnds,
              MonitorPeriod, MaxPolls, SegTicks, RingSize, MaxMade
<1>2. CASE ListeningNext
  BY <1>2, WalkingKeeps, RequestKeeps, FetchKeeps, MissingKeeps, StreamEndKeeps,
     ScanKeeps, TickKeeps DEF ListeningNext
<1> QED BY <1>1, <1>2

(* The invariant holds whatever the listener, the device and the monitor   *)
(* do, with any setting.                                                   *)
THEOREM ListeningInvariant == ListeningSpec => []ListeningInv
  BY ListeningInitInv, ListeningStepInv, PTL DEF ListeningSpec

(* With any grace period, scan, segment length and HTTP cache: a tuner is  *)
(* freed in time, old audio is heard after a pause only, and no playlist   *)
(* is served that needs more segments than are kept.                       *)
THEOREM TunerIsFreed == ListeningSpec => []ListeningBounded
<1>1. ListeningInv => ListeningBounded
  BY StateNumbers, SettingNumbers
     DEF ListeningInv, ListeningBounded, TunerFreed, ScannedInTime, ListeningTypeOK
<1> QED BY <1>1, ListeningInvariant, PTL

(* A pipeline that is removed has been idle: for no longer than its stream *)
(* is old, nor than the segment that is being made.                        *)
LEMMA StepKeepsListeners ==
    ASSUME ListeningInv, [ListeningNext]_listeningVars
    PROVE  [PlayingListenerKept /\ WaitingListenerKept]_listeningVars
<1> USE SettingNumbers, StateNumbers DEF ListeningInv
<1>t. setting \in Settings /\ ListeningTypeOK
  BY DEF ListeningTypeOK
<1>1. ASSUME there, ~there', live PROVE Scan /\ idle > GracePeriod
  <2>1. ~UNCHANGED there
    BY <1>1
  <2>2. ListeningNext
    BY <2>1 DEF listeningVars, events, pipeline
  <2> QED BY <1>1, <2>1, <2>2
          DEF ListeningNext, Join, Leave, Ask, GetPlaylist, TimeOut, Reload, FetchCached, Fetch,
              FetchMissing, StreamEnds, Tick, Scan, pipeline
<1>2. PlayingListenerKept
  <2>1. ASSUME there, ~there', listener = "plays", own, live, ~CanFetch, heard.age = 0
        PROVE  SegTicks > GracePeriod
    <3>1. next = made
      BY <1>t, <2>1 DEF NextInv, CanFetch, Offered
    <3>2. idle <= part /\ idle > GracePeriod
      BY <1>1, <2>1, <3>1 DEF HeardInv
    <3> QED BY <1>t, <3>2
  <2> QED BY <1>t, <2>1 DEF PlayingListenerKept
<1>3. WaitingListenerKept
  <2>1. ASSUME there, ~there', listener = "waits", own, live, polls > 0, StartFits PROVE FALSE
    <3>1. idle <= StreamAge /\ StreamAge <= Needed * SegTicks /\ idle > GracePeriod
      BY <1>1, <2>1 DEF AgeInv
    <3>2. Needed * SegTicks <= GracePeriod
      BY <2>1 DEF StartFits
    <3>3. StreamAge \in Nat /\ Needed * SegTicks \in Nat
      BY <1>t, NextSegment DEF StreamAge
    <3> QED BY <1>t, <3>1, <3>2, <3>3
  <2> QED BY <2>1 DEF WaitingListenerKept
<1> QED BY <1>2, <1>3

(* No pipeline is taken from a listener that plays what it makes, or waits *)
(* for a start that fits.                                                  *)
THEOREM ListenersAreKept == ListeningSpec => ListenersKept
<1>1. ListeningInv /\ [ListeningNext]_listeningVars =>
          [PlayingListenerKept /\ WaitingListenerKept]_listeningVars
  BY StepKeepsListeners
<1> QED BY <1>1, ListeningInvariant, PTL DEF ListeningSpec, ListenersKept

-----------------------------------------------------------------------------
(* The ffmpeg backend (module Ffmpeg).                                     *)

(* What holds between child, task and owner.                               *)
OwnerInv ==
    /\ owner = "receives" => open /\ ~shutdown
    /\ owner # "done" => open

(* While its owner receives, the task ends only when the child is gone and *)
(* the pipe is read to its end.                                            *)
ReaderInv ==
    owner = "receives" /\ reader = "ended" => child = "gone" /\ stdout = 0 /\ batch = 0

(* The child writes no more than the bound, and nothing is made up.        *)
WrittenInv == child = "writes" => written < MaxWritten
NothingGained == received + queue + batch + stdout <= written

FfmpegInv ==
    /\ FfmpegTypeOK /\ OwnerInv /\ ReaderInv /\ WrittenInv
    /\ NothingGained /\ NothingLost /\ TunerFree

-----------------------------------------------------------------------------

LEMMA Bounds == PipeCap \in Nat /\ ChannelCap \in Nat /\ MaxWritten \in Nat
  BY FfmpegAssumption

LEMMA FfmpegInitInv == ASSUME FfmpegInit PROVE FfmpegInv
<1>1. FfmpegTypeOK
  <2>1. /\ 0 \in 0..PipeCap /\ 0 \in 0..ChannelCap /\ 0 \in 0..MaxWritten
        /\ ~(0 > 0)
    BY Bounds
  <2>2. /\ written = 0 /\ stdout = 0 /\ stderr = 0 /\ batch = 0 /\ queue = 0
        /\ received = 0 /\ reader = "reads" /\ reader # "sends"
    BY DEF FfmpegInit
  <2>3. /\ child = "runs" /\ owner = "receives" /\ open = TRUE /\ shutdown = FALSE
    BY DEF FfmpegInit
  <2> QED BY <2>1, <2>2, <2>3, Zenon DEF FfmpegTypeOK
<1>2. OwnerInv /\ ReaderInv /\ WrittenInv /\ NothingGained /\ NothingLost /\ TunerFree
  BY DEF FfmpegInit, OwnerInv, ReaderInv, WrittenInv, NothingGained, NothingLost, TunerFree
<1> QED BY <1>1, <1>2 DEF FfmpegInv

(* The numbers of the invariant, for the steps that count.                 *)
LEMMA Numbers ==
    ASSUME FfmpegTypeOK
    PROVE  /\ written \in Nat /\ stdout \in Nat /\ stderr \in Nat /\ batch \in Nat
           /\ queue \in Nat /\ received \in Nat
  BY Bounds DEF FfmpegTypeOK

LEMMA ChildKeeps ==
    ASSUME FfmpegInv, ChildGoes \/ ChildWrites \/ ChildWarns
    PROVE  FfmpegInv'
<1> USE Bounds DEF FfmpegInv, readerVars, ownerVars
<1>n. /\ written \in Nat /\ stdout \in Nat /\ stderr \in Nat /\ batch \in Nat
      /\ queue \in Nat /\ received \in Nat
  BY Numbers
<1>1. CASE ChildGoes
  <2>1. FfmpegTypeOK' /\ WrittenInv'
    BY <1>1 DEF ChildGoes, FfmpegTypeOK, WrittenInv
  <2>2. OwnerInv' /\ ReaderInv' /\ NothingGained' /\ NothingLost' /\ TunerFree'
    BY <1>1 DEF ChildGoes, OwnerInv, ReaderInv, NothingGained, NothingLost, TunerFree
  <2> QED BY <2>1, <2>2
<1>2. CASE ChildWrites
  <2>1. FfmpegTypeOK' /\ WrittenInv'
    BY <1>2, <1>n DEF ChildWrites, FfmpegTypeOK, WrittenInv
  <2>2. OwnerInv' /\ ReaderInv' /\ TunerFree'
    BY <1>2 DEF ChildWrites, OwnerInv, ReaderInv, TunerFree
  <2>3. NothingGained' /\ NothingLost'
    BY <1>2, <1>n DEF ChildWrites, NothingGained, NothingLost
  <2> QED BY <2>1, <2>2, <2>3
<1>3. CASE ChildWarns
  <2>1. FfmpegTypeOK' /\ WrittenInv'
    BY <1>3, <1>n DEF ChildWarns, FfmpegTypeOK, WrittenInv
  <2>2. OwnerInv' /\ ReaderInv' /\ NothingGained' /\ NothingLost' /\ TunerFree'
    BY <1>3 DEF ChildWarns, OwnerInv, ReaderInv, NothingGained, NothingLost, TunerFree
  <2> QED BY <2>1, <2>2
<1> QED BY <1>1, <1>2, <1>3

LEMMA ReaderKeeps ==
    ASSUME FfmpegInv, Read \/ ReadEnds \/ Send \/ SendFails \/ SeesShutdown
    PROVE  FfmpegInv'
<1> USE Bounds DEF FfmpegInv, childVars, ownerVars
<1>n. /\ written \in Nat /\ stdout \in Nat /\ stderr \in Nat /\ batch \in Nat
      /\ queue \in Nat /\ received \in Nat
  BY Numbers
<1>1. CASE Read
  <2>1. PICK n \in 1..stdout : batch' = n /\ stdout' = stdout - n
    BY <1>1 DEF Read
  <2>2. batch = 0
    BY <1>1, <1>n DEF Read, FfmpegTypeOK
  <2>3. FfmpegTypeOK'
    BY <1>1, <1>n, <2>1 DEF Read, FfmpegTypeOK
  <2>4. OwnerInv' /\ ReaderInv' /\ WrittenInv' /\ TunerFree'
    BY <1>1 DEF Read, OwnerInv, ReaderInv, WrittenInv, TunerFree
  <2>5. NothingGained' /\ NothingLost'
    BY <1>1, <1>n, <2>1, <2>2 DEF Read, NothingGained, NothingLost
  <2> QED BY <2>3, <2>4, <2>5
<1>2. CASE ReadEnds
  <2>1. batch = 0
    BY <1>2, <1>n DEF ReadEnds, FfmpegTypeOK
  <2>2. FfmpegTypeOK'
    BY <1>2, <2>1 DEF ReadEnds, FfmpegTypeOK
  <2>3. OwnerInv' /\ WrittenInv' /\ TunerFree' /\ NothingGained' /\ NothingLost'
    BY <1>2 DEF ReadEnds, OwnerInv, WrittenInv, TunerFree, NothingGained, NothingLost
  <2>4. ReaderInv'
    BY <1>2, <2>1 DEF ReadEnds, ReaderInv
  <2> QED BY <2>2, <2>3, <2>4
<1>3. CASE Send
  <2>1. batch > 0 /\ batch' = batch - 1 /\ queue' = queue + 1
    BY <1>3, <1>n DEF Send, FfmpegTypeOK
  <2>2. FfmpegTypeOK'
    BY <1>3, <1>n, <2>1 DEF Send, FfmpegTypeOK
  <2>3. OwnerInv' /\ ReaderInv' /\ WrittenInv' /\ TunerFree'
    BY <1>3 DEF Send, OwnerInv, ReaderInv, WrittenInv, TunerFree
  <2>4. NothingGained' /\ NothingLost'
    BY <1>3, <1>n, <2>1 DEF Send, NothingGained, NothingLost
  <2> QED BY <2>2, <2>3, <2>4
<1>4. CASE SendFails
  <2>1. owner # "receives"
    BY <1>4 DEF SendFails, OwnerInv
  <2>2. FfmpegTypeOK'
    BY <1>4 DEF SendFails, FfmpegTypeOK
  <2>3. OwnerInv' /\ ReaderInv' /\ WrittenInv' /\ TunerFree' /\ NothingLost'
    BY <1>4, <2>1 DEF SendFails, OwnerInv, ReaderInv, WrittenInv, TunerFree, NothingLost
  <2>4. NothingGained'
    BY <1>4, <1>n DEF SendFails, NothingGained
  <2> QED BY <2>2, <2>3, <2>4
<1>5. CASE SeesShutdown
  <2>1. owner # "receives"
    BY <1>5 DEF SeesShutdown, OwnerInv
  <2>2. FfmpegTypeOK'
    BY <1>5 DEF SeesShutdown, FfmpegTypeOK
  <2>3. /\ OwnerInv' /\ ReaderInv' /\ WrittenInv' /\ TunerFree'
        /\ NothingGained' /\ NothingLost'
    BY <1>5, <2>1 DEF SeesShutdown, OwnerInv, ReaderInv, WrittenInv, TunerFree,
                      NothingGained, NothingLost
  <2> QED BY <2>2, <2>3
<1> QED BY <1>1, <1>2, <1>3, <1>4, <1>5

LEMMA OwnerKeeps ==
    ASSUME FfmpegInv, Receive \/ ReceiveEnds \/ ToldToStop \/ StopSignals \/ StopKills
    PROVE  FfmpegInv'
<1> USE Bounds DEF FfmpegInv, childVars, readerVars
<1>n. /\ written \in Nat /\ stdout \in Nat /\ stderr \in Nat /\ batch \in Nat
      /\ queue \in Nat /\ received \in Nat
  BY Numbers
<1>1. CASE Receive
  <2>1. queue > 0 /\ queue' = queue - 1 /\ received' = received + 1
    BY <1>1 DEF Receive
  <2>2. received + 1 <= written /\ written <= MaxWritten
    BY <1>n, <2>1 DEF NothingGained, FfmpegTypeOK
  <2>3. FfmpegTypeOK'
    BY <1>1, <1>n, <2>1, <2>2 DEF Receive, FfmpegTypeOK
  <2>4. OwnerInv' /\ ReaderInv' /\ WrittenInv' /\ TunerFree'
    BY <1>1 DEF Receive, OwnerInv, ReaderInv, WrittenInv, TunerFree
  <2>5. NothingGained' /\ NothingLost'
    BY <1>1, <1>n, <2>1 DEF Receive, NothingGained, NothingLost
  <2> QED BY <2>3, <2>4, <2>5
<1>2. CASE ReceiveEnds \/ ToldToStop \/ StopSignals
  <2>1. FfmpegTypeOK'
    BY <1>2 DEF ReceiveEnds, ToldToStop, StopSignals, FfmpegTypeOK
  <2>2. /\ OwnerInv' /\ ReaderInv' /\ WrittenInv' /\ TunerFree'
        /\ NothingGained' /\ NothingLost'
    BY <1>2 DEF ReceiveEnds, ToldToStop, StopSignals, OwnerInv, ReaderInv, WrittenInv,
                TunerFree, NothingGained, NothingLost
  <2> QED BY <2>1, <2>2
<1>3. CASE StopKills
  <2>1. /\ 0 \in 0..ChannelCap /\ queue' = 0 /\ open' = FALSE
        /\ child' = "gone" /\ owner' = "done"
    BY <1>3 DEF StopKills
  <2>4. FfmpegTypeOK'
    BY <1>3, <2>1, Zenon DEF StopKills, FfmpegTypeOK
  <2>2. OwnerInv' /\ ReaderInv' /\ WrittenInv' /\ TunerFree' /\ NothingLost'
    BY <1>3 DEF StopKills, OwnerInv, ReaderInv, WrittenInv, TunerFree, NothingLost
  <2>3. NothingGained'
    BY <1>3, <1>n DEF StopKills, NothingGained
  <2> QED BY <2>2, <2>3, <2>4
<1> QED BY <1>1, <1>2, <1>3

LEMMA FfmpegStepInv == ASSUME FfmpegInv, [FfmpegNext]_ffmpegVars PROVE FfmpegInv'
<1>1. CASE UNCHANGED ffmpegVars
  BY <1>1 DEF FfmpegInv, FfmpegTypeOK, OwnerInv, ReaderInv, WrittenInv, NothingGained,
              NothingLost, TunerFree, ffmpegVars, childVars, readerVars, ownerVars
<1>2. CASE FfmpegNext
  BY <1>2, ChildKeeps, ReaderKeeps, OwnerKeeps DEF FfmpegNext
<1> QED BY <1>1, <1>2

-----------------------------------------------------------------------------

(* The invariant holds whatever the child, the task and the owner do, in   *)
(* whatever order.                                                         *)
THEOREM FfmpegInvariant == FfmpegSpec => []FfmpegInv
  BY FfmpegInitInv, FfmpegStepInv, PTL DEF FfmpegSpec

(* Pipes and channel never hold more than they can, with any capacity.     *)
THEOREM FfmpegTypeCorrect == FfmpegSpec => []FfmpegTypeOK
<1>1. FfmpegInv => FfmpegTypeOK
  BY DEF FfmpegInv
<1> QED BY <1>1, FfmpegInvariant, PTL

(* Every frame the child wrote is on its way or received, as long as the   *)
(* muxer receives.                                                         *)
THEOREM FramesKept == FfmpegSpec => []NothingLost
<1>1. FfmpegInv => NothingLost
  BY DEF FfmpegInv
<1> QED BY <1>1, FfmpegInvariant, PTL

(* When stop() has returned the child is gone, and with it the connection  *)
(* to the tuner.                                                           *)
THEOREM StopFreesTuner == FfmpegSpec => []TunerFree
<1>1. FfmpegInv => TunerFree
  BY DEF FfmpegInv
<1> QED BY <1>1, FfmpegInvariant, PTL

(* A stream that ends by itself is received to its end.                    *)
THEOREM EndIsDrained == FfmpegSpec => []EndDrained
<1>1. FfmpegInv => EndDrained
  <2>1. ASSUME FfmpegInv, owner = "receives", queue = 0, reader = "ended"
        PROVE  received = written
    <3>1. stdout = 0 /\ batch = 0 /\ written = stdout + batch + queue + received
      BY <2>1 DEF FfmpegInv, ReaderInv, NothingLost
    <3>2. received \in Nat
      BY <2>1, Numbers DEF FfmpegInv
    <3> QED BY <2>1, <3>1, <3>2
  <2> QED BY <2>1 DEF EndDrained
<1> QED BY <1>1, FfmpegInvariant, PTL

(* Whatever the capacities and the order of things.                        *)
THEOREM ChildIsManaged == FfmpegSpec => []ChildManaged
BY FramesKept, EndIsDrained, StopFreesTuner, PTL DEF ChildManaged

-----------------------------------------------------------------------------
(* The search for the tuner (module Discovery).                            *)

(* Lists of subnets of which none comes up twice.                          *)
Distinct(list) == \A i, j \in 1..Len(list) : list[i] = list[j] => i = j
Lists == {list \in Seq(Subnet) : Distinct(list)}

LEMMA PushKeepsDistinct ==
    ASSUME NEW list \in Lists, NEW subnet \in Subnet
    PROVE  PushNew(list, subnet) \in Lists /\ PushPrivate(list, subnet) \in Lists
<1>1. CASE Contains(list, subnet)
  BY <1>1 DEF PushNew, PushPrivate
<1>2. CASE ~Contains(list, subnet)
  <2>1. PushNew(list, subnet) = Append(list, subnet)
    BY <1>2 DEF PushNew
  <2>2. list \in Seq(Subnet) /\ Distinct(list) /\ \A i \in 1..Len(list) : list[i] # subnet
    BY <1>2 DEF Lists, Contains
  <2> DEFINE new == Append(list, subnet)
  <2>3. /\ new \in Seq(Subnet) /\ Len(new) = Len(list) + 1 /\ Len(list) \in Nat
        /\ \A i \in 1..Len(list) : new[i] = list[i]
        /\ new[Len(list) + 1] = subnet
    BY <2>2
  <2> HIDE DEF new
  <2>4. ASSUME NEW i \in 1..Len(new), NEW j \in 1..Len(new), new[i] = new[j] PROVE i = j
    <3>1. (i \in 1..Len(list) \/ i = Len(list) + 1) /\ (j \in 1..Len(list) \/ j = Len(list) + 1)
      BY <2>3
    <3> QED BY <2>2, <2>3, <2>4, <3>1 DEF Distinct
  <2>5. new \in Lists
    BY <2>3, <2>4 DEF Lists, Distinct
  <2> QED BY <2>1, <2>5 DEF new, PushPrivate
<1> QED BY <1>1, <1>2

(* What the fold over a list of subnets returns: its recursive function    *)
(* exists, and has no list with a repetition at any prefix.                *)
LEMMA FoldNew ==
    ASSUME NEW base \in Lists, NEW s \in Seq(Subnet)
    PROVE  FoldLeft(PushNew, base, s) \in Lists
<1> DEFINE Folded(it) == [t \in SUBSET DOMAIN s |->
                            IF t = {} THEN base ELSE PushNew(it[t \ {Max(t)}], s[Max(t)])]
           iter == CHOOSE it : it = Folded(it)
           h == [p \in Lists \X Subnet |-> PushNew(p[1], p[2])]
<1>1. FoldLeft(PushNew, base, s) = iter[DOMAIN s]
  BY DEF FoldLeft, MapThenFoldSet
<1>2. h \in [Lists \X Subnet -> Lists]
  BY PushKeepsDistinct
<1>3. DOMAIN s = 1..Len(s) /\ Len(s) \in Nat /\ \A i \in DOMAIN s : s[i] \in Subnet
  OBVIOUS
<1>4. PICK it \in [SUBSET (1..Len(s)) -> Lists] : FoldsBy(it, h, base, s, Len(s))
  <2> HIDE DEF h
  <2> QED BY <1>2, FoldExists
<1>5. \E f : f = Folded(f)
  <2>1. ASSUME NEW t \in SUBSET (1..Len(s)), t # {}
        PROVE  it[t] = PushNew(it[t \ {Max(t)}], s[Max(t)])
    <3>1. t \ {Max(t)} \in SUBSET (1..Len(s)) /\ it[t \ {Max(t)}] \in Lists
      BY <1>4
    <3>2. Max(t) \in 1..Len(s)
      <4>1. t \in SUBSET (0..Len(s))
        BY <1>3
      <4>2. Max(t) \in t
        BY <1>3, <2>1, <4>1, MaxIn
      <4> QED BY <4>2
    <3>3. it[t] = h[<<it[t \ {Max(t)}], s[Max(t)]>>]
      BY <1>4, <2>1 DEF FoldsBy
    <3> QED BY <1>3, <3>1, <3>2, <3>3
  <2>2. it[{}] = base
    BY <1>4 DEF FoldsBy
  <2>3. ASSUME NEW t \in SUBSET DOMAIN s PROVE it[t] = Folded(it)[t]
    BY <1>3, <2>1, <2>2
  <2>4. it = Folded(it)
    <3>1. it = [t \in SUBSET DOMAIN s |-> it[t]]
      BY <1>3, <1>4
    <3>2. Folded(it) = [t \in SUBSET DOMAIN s |-> Folded(it)[t]]
      OBVIOUS
    <3> HIDE DEF Folded
    <3> QED BY <2>3, <3>1, <3>2
  <2> QED BY <2>4
<1>6. iter = Folded(iter)
  <2> HIDE DEF Folded
  <2> QED BY <1>5
<1>7. iter[{}] = base
  BY <1>6
<1>8. ASSUME NEW k \in 1..Len(s), iter[1..(k - 1)] \in Lists PROVE iter[1..k] \in Lists
  <2>1. Max(1..k) = k /\ (1..k) \ {k} = 1..(k - 1) /\ 1..k # {}
    BY <1>3, Places
  <2>2. 1..k \in SUBSET DOMAIN s /\ s[k] \in Subnet
    BY <1>3
  <2>3. iter[1..k] = Folded(iter)[1..k]
    BY <1>6
  <2>4. Folded(iter)[1..k] = PushNew(iter[1..(k - 1)], s[k])
    <3> HIDE DEF iter
    <3> QED BY <2>1, <2>2
  <2> HIDE DEF iter, Folded
  <2> QED BY <1>8, <2>2, <2>3, <2>4, PushKeepsDistinct
<1> HIDE DEF iter, Folded, h
<1> QED BY <1>1, <1>3, <1>7, <1>8, FoldInvariant
(* The same for the second list.                                           *)
LEMMA FoldPrivate ==
    ASSUME NEW base \in Lists, NEW s \in Seq(Subnet)
    PROVE  FoldLeft(PushPrivate, base, s) \in Lists
<1> DEFINE Folded(it) == [t \in SUBSET DOMAIN s |->
                            IF t = {} THEN base ELSE PushPrivate(it[t \ {Max(t)}], s[Max(t)])]
           iter == CHOOSE it : it = Folded(it)
           h == [p \in Lists \X Subnet |-> PushPrivate(p[1], p[2])]
<1>1. FoldLeft(PushPrivate, base, s) = iter[DOMAIN s]
  BY DEF FoldLeft, MapThenFoldSet
<1>2. h \in [Lists \X Subnet -> Lists]
  BY PushKeepsDistinct
<1>3. DOMAIN s = 1..Len(s) /\ Len(s) \in Nat /\ \A i \in DOMAIN s : s[i] \in Subnet
  OBVIOUS
<1>4. PICK it \in [SUBSET (1..Len(s)) -> Lists] : FoldsBy(it, h, base, s, Len(s))
  <2> HIDE DEF h
  <2> QED BY <1>2, FoldExists
<1>5. \E f : f = Folded(f)
  <2>1. ASSUME NEW t \in SUBSET (1..Len(s)), t # {}
        PROVE  it[t] = PushPrivate(it[t \ {Max(t)}], s[Max(t)])
    <3>1. t \ {Max(t)} \in SUBSET (1..Len(s)) /\ it[t \ {Max(t)}] \in Lists
      BY <1>4
    <3>2. Max(t) \in 1..Len(s)
      <4>1. t \in SUBSET (0..Len(s))
        BY <1>3
      <4>2. Max(t) \in t
        BY <1>3, <2>1, <4>1, MaxIn
      <4> QED BY <4>2
    <3>3. it[t] = h[<<it[t \ {Max(t)}], s[Max(t)]>>]
      BY <1>4, <2>1 DEF FoldsBy
    <3> QED BY <1>3, <3>1, <3>2, <3>3
  <2>2. it[{}] = base
    BY <1>4 DEF FoldsBy
  <2>3. ASSUME NEW t \in SUBSET DOMAIN s PROVE it[t] = Folded(it)[t]
    BY <1>3, <2>1, <2>2
  <2>4. it = Folded(it)
    <3>1. it = [t \in SUBSET DOMAIN s |-> it[t]]
      BY <1>3, <1>4
    <3>2. Folded(it) = [t \in SUBSET DOMAIN s |-> Folded(it)[t]]
      OBVIOUS
    <3> HIDE DEF Folded
    <3> QED BY <2>3, <3>1, <3>2
  <2> QED BY <2>4
<1>6. iter = Folded(iter)
  <2> HIDE DEF Folded
  <2> QED BY <1>5
<1>7. iter[{}] = base
  BY <1>6
<1>8. ASSUME NEW k \in 1..Len(s), iter[1..(k - 1)] \in Lists PROVE iter[1..k] \in Lists
  <2>1. Max(1..k) = k /\ (1..k) \ {k} = 1..(k - 1) /\ 1..k # {}
    BY <1>3, Places
  <2>2. 1..k \in SUBSET DOMAIN s /\ s[k] \in Subnet
    BY <1>3
  <2>3. iter[1..k] = Folded(iter)[1..k]
    BY <1>6
  <2>4. Folded(iter)[1..k] = PushPrivate(iter[1..(k - 1)], s[k])
    <3> HIDE DEF iter
    <3> QED BY <2>1, <2>2
  <2> HIDE DEF iter, Folded
  <2> QED BY <1>8, <2>2, <2>3, <2>4, PushKeepsDistinct
<1> HIDE DEF iter, Folded, h
<1> QED BY <1>1, <1>3, <1>7, <1>8, FoldInvariant

(* detect_subnets returns every subnet once.                               *)
LEMMA DetectedDistinct ==
    ASSUME NEW r \in Routes
    PROVE  DetectSubnets(r) \in Lists /\ DetectSubnets(r) # << >>
<1> DEFINE bound == FoldLeft(PushNew, << >>, r.bound)
           list == FoldLeft(PushPrivate, bound, r.trie)
<1>1. << >> \in Lists /\ <<Default>> \in Lists /\ <<Default>> # << >>
  <2>1. Default \in Subnet
    BY DiscoveryAssumption
  <2>2. /\ << >> \in Seq(Subnet) /\ Len(<< >>) = 0
        /\ <<Default>> \in Seq(Subnet) /\ Len(<<Default>>) = 1
    BY <2>1
  <2>3. Distinct(<< >>)
    BY <2>2 DEF Distinct
  <2>4. Distinct(<<Default>>)
    BY <2>2 DEF Distinct
  <2>5. <<Default>> # << >>
    BY <2>2
  <2> QED BY <2>2, <2>3, <2>4, <2>5 DEF Lists
<1>2. r.bound \in Seq(Subnet) /\ r.trie \in Seq(Subnet)
  BY DiscoveryAssumption
<1>3. bound \in Lists
  BY <1>1, <1>2, FoldNew
<1>4. list \in Lists
  <2> HIDE DEF bound
  <2> QED BY <1>2, <1>3, FoldPrivate
<1>5. DetectSubnets(r) = IF list = << >> THEN <<Default>> ELSE list
  BY DEF DetectSubnets
<1> HIDE DEF list
<1> QED BY <1>1, <1>4, <1>5

-----------------------------------------------------------------------------

(* What a thread returned is true of its address.                          *)
HandlesInv ==
    \A i \in 1..Len(handles) :
        /\ handles[i] = "some" => Scanned(i) \in device \cup busy
        /\ handles[i] = "none" => Scanned(i) \notin device

(* Once the search has begun the name has not helped; main has passed the  *)
(* threads that found nothing, and no other.                               *)
JoinedInv ==
    /\ stage \notin {"mdns", "found"} => named \notin device
    /\ stage \in {"mdns", "spawns"} => joined = 0
    /\ stage = "joins" =>
          /\ Len(handles) = ToScan /\ joined <= Len(handles)
          /\ \A i \in 1..joined : handles[i] = "none"
    /\ stage = "exited" => \A i \in 1..ToScan : Scanned(i) \notin device

ThreadsOK ==
    /\ device \subseteq Address
    /\ handles \in Seq({"runs", "none", "some"}) /\ joined \in Nat

SearchInv == ThreadsOK /\ HandlesInv /\ JoinedInv /\ FirstFound

-----------------------------------------------------------------------------

LEMMA SearchInit == ASSUME DiscoveryInit PROVE SearchInv
<1>1. handles = << >> /\ stage = "mdns" /\ joined = 0
  BY DEF DiscoveryInit
<1>2. handles \in Seq({"runs", "none", "some"}) /\ Len(handles) = 0
  BY <1>1
<1>3. ThreadsOK
  <2>1. device \subseteq Address
    <3>1. PICK t \in SUBSET Address : device \in SUBSET t
      BY DEF DiscoveryInit
    <3> QED BY <3>1
  <2> QED BY <1>1, <1>2, <2>1 DEF ThreadsOK
<1>4. HandlesInv
  BY <1>2 DEF HandlesInv
<1>5. JoinedInv /\ FirstFound
  BY <1>1 DEF JoinedInv, FirstFound
<1> QED BY <1>3, <1>4, <1>5 DEF SearchInv

(* The name is asked first.                                                *)
LEMMA AskKeeps == ASSUME SearchInv, AskMdns PROVE SearchInv'
<1> USE DEF SearchInv, networkVars
<1>1. UNCHANGED <<device, busy, named, subnets, handles, joined>> /\ stage = "mdns"
  BY DEF AskMdns
<1>2. ThreadsOK' /\ HandlesInv'
  BY <1>1 DEF ThreadsOK, HandlesInv, Scanned
<1>3. CASE named # NoAddress /\ TRUE \in Verify(named) /\ Found(named)
  <2>1. stage' = "found" /\ hdhr_host' = named
    BY <1>3 DEF Found
  <2>2. named \in device \cup busy
    BY <1>3 DEF Verify
  <2> QED BY <1>1, <1>2, <2>1, <2>2 DEF JoinedInv, FirstFound
<1>4. CASE /\ named = NoAddress \/ FALSE \in Verify(named)
           /\ stage' = "spawns" /\ UNCHANGED hdhr_host
  <2>1. named = NoAddress \/ named \notin device
    BY <1>4 DEF Verify
  <2>2. named \notin device
    BY <2>1, DiscoveryAssumption DEF ThreadsOK
  <2> QED BY <1>1, <1>2, <1>4, <2>2 DEF JoinedInv, FirstFound
<1> QED BY <1>3, <1>4 DEF AskMdns

(* A thread starts or ends: what others have returned stays.               *)
LEMMA SpawnKeeps == ASSUME SearchInv, Spawn PROVE SearchInv'
<1> USE DEF SearchInv, networkVars
<1>1. UNCHANGED <<device, busy, named, subnets, joined, hdhr_host>> /\ stage = "spawns"
  BY DEF Spawn
<1>2. CASE handles' = Append(handles, "runs") /\ stage' = stage
  <2>1. /\ handles' \in Seq({"runs", "none", "some"})
        /\ Len(handles') = Len(handles) + 1 /\ Len(handles) \in Nat
        /\ \A i \in 1..Len(handles) : handles'[i] = handles[i]
        /\ handles'[Len(handles) + 1] = "runs"
    BY <1>2 DEF ThreadsOK
  <2>2. ThreadsOK'
    BY <1>1, <2>1 DEF ThreadsOK
  <2>3. ASSUME NEW i \in 1..Len(handles')
        PROVE  /\ handles'[i] = "some" => Scanned(i) \in device \cup busy
               /\ handles'[i] = "none" => Scanned(i) \notin device
    <3>1. i \in 1..Len(handles) \/ i = Len(handles) + 1
      BY <2>1
    <3> QED BY <2>1, <3>1 DEF HandlesInv
  <2>4. HandlesInv'
    BY <1>1, <2>3 DEF HandlesInv, Scanned
  <2>5. JoinedInv' /\ FirstFound'
    BY <1>1, <1>2 DEF JoinedInv, FirstFound
  <2> QED BY <2>2, <2>4, <2>5
<1>3. CASE stage' = "panicked" /\ UNCHANGED handles
  BY <1>1, <1>3 DEF ThreadsOK, HandlesInv, JoinedInv, FirstFound, Scanned
<1> QED BY <1>2, <1>3 DEF Spawn

LEMMA ThreadKeeps ==
    ASSUME SearchInv, NEW t, ThreadEnds(t) PROVE SearchInv'
<1> USE DEF SearchInv, networkVars
<1>1. /\ UNCHANGED <<device, busy, named, subnets, stage, joined, hdhr_host>>
      /\ t \in DOMAIN handles /\ handles[t] = "runs"
  BY DEF ThreadEnds, Running
<1>2. PICK some \in Verify(Scanned(t)) :
         handles' = [handles EXCEPT ![t] = IF some THEN "some" ELSE "none"]
  BY DEF ThreadEnds
<1>3. /\ handles' \in Seq({"runs", "none", "some"}) /\ Len(handles') = Len(handles)
      /\ \A i \in 1..Len(handles) : i # t => handles'[i] = handles[i]
  BY <1>1, <1>2 DEF ThreadsOK
<1>4. /\ handles'[t] = "some" => Scanned(t) \in device \cup busy
      /\ handles'[t] = "none" => Scanned(t) \notin device
  <2>1. handles'[t] = IF some THEN "some" ELSE "none"
    BY <1>1, <1>2
  <2>2. CASE Scanned(t) \in device
    <3>1. some = TRUE
      BY <1>2, <2>2 DEF Verify
    <3> QED BY <2>1, <2>2, <3>1
  <2>3. CASE Scanned(t) \in busy \ device
    <3>1. "some" # "none"
      OBVIOUS
    <3> QED BY <2>1, <2>3, <3>1
  <2>4. CASE Scanned(t) \notin device \cup busy
    <3>1. some = FALSE
      BY <1>2, <2>4 DEF Verify
    <3> QED BY <2>1, <2>4, <3>1
  <2> QED BY <2>2, <2>3, <2>4
<1>5. HandlesInv'
  BY <1>1, <1>3, <1>4 DEF HandlesInv, Scanned
<1>6. JoinedInv'
  <2>1. ASSUME stage = "joins" PROVE \A i \in 1..joined : handles'[i] = "none"
    <3>1. \A i \in 1..joined : handles[i] = "none" /\ i \in 1..Len(handles)
      BY <2>1 DEF JoinedInv, ThreadsOK
    <3> QED BY <1>1, <1>3, <3>1
  <2> QED BY <1>1, <1>3, <2>1 DEF JoinedInv, ToScan, Scanned
<1>7. ThreadsOK' /\ FirstFound'
  BY <1>1, <1>3 DEF ThreadsOK, FirstFound, ToScan, Scanned
<1> QED BY <1>5, <1>6, <1>7

(* Main goes through the threads in their order.                           *)
LEMMA JoinKeeps == ASSUME SearchInv, JoinNext PROVE SearchInv'
<1> USE DEF SearchInv, networkVars
<1>1. /\ UNCHANGED <<device, busy, named, subnets, handles>>
      /\ stage = "joins" /\ joined' = joined + 1 /\ joined < ToScan
      /\ Len(handles) = ToScan /\ joined \in Nat /\ Len(handles) \in Nat
  BY DEF JoinNext, JoinedInv, ThreadsOK
<1>2. joined + 1 \in 1..Len(handles)
  BY <1>1
<1>3. handles[joined + 1] \in {"none", "some"}
  BY <1>2 DEF JoinNext, ThreadsOK
<1>4. ThreadsOK' /\ HandlesInv'
  BY <1>1 DEF ThreadsOK, HandlesInv, Scanned
<1>5. \A i \in 1..joined : handles[i] = "none" /\ Scanned(i) \notin device
  <2>1. \A i \in 1..joined : handles[i] = "none" /\ i \in 1..Len(handles)
    BY <1>1, <1>2 DEF JoinedInv
  <2> QED BY <2>1 DEF HandlesInv
<1>6. CASE handles[joined + 1] = "some"
  <2>1. stage' = "found" /\ hdhr_host' = Scanned(joined + 1)
    BY <1>6 DEF JoinNext, Found
  <2>2. Scanned(joined + 1) \in device \cup busy
    BY <1>2, <1>6 DEF HandlesInv
  <2>3. named \notin device
    BY <1>1 DEF JoinedInv
  <2>4. FirstFound'
    <3>1. \E i \in 1..ToScan :
             /\ Scanned(i) = hdhr_host'
             /\ \A j \in 1..(i - 1) : Scanned(j) \notin device
      <4>1. joined + 1 \in 1..ToScan /\ (joined + 1) - 1 = joined
        BY <1>1, <1>2
      <4> QED BY <1>5, <2>1, <4>1
    <3>2. /\ ToScan' = ToScan /\ device' = device /\ busy' = busy /\ named' = named
          /\ \A i : Scanned(i)' = Scanned(i)
      BY <1>1 DEF ToScan, Scanned
    <3>3. hdhr_host' \in device \cup busy
      BY <2>1, <2>2
    <3> QED BY <2>3, <3>1, <3>2, <3>3 DEF FirstFound
  <2>5. JoinedInv'
    BY <1>1, <2>1, <2>3 DEF JoinedInv
  <2> QED BY <1>4, <2>4, <2>5
<1>7. CASE handles[joined + 1] = "none"
  <2>1. UNCHANGED <<stage, hdhr_host>>
    BY <1>7 DEF JoinNext
  <2>2. \A i \in 1..(joined + 1) : handles[i] = "none"
    BY <1>1, <1>5, <1>7
  <2>3. JoinedInv' /\ FirstFound'
    BY <1>1, <2>1, <2>2 DEF JoinedInv, FirstFound, ToScan
  <2> QED BY <1>4, <2>3
<1> QED BY <1>3, <1>6, <1>7

LEMMA GivesUpKeeps == ASSUME SearchInv, NotFound \/ AllSpawned PROVE SearchInv'
<1> USE DEF SearchInv, networkVars
<1>1. UNCHANGED <<device, busy, named, subnets, handles, joined, hdhr_host>>
  BY DEF NotFound, AllSpawned
<1>2. ThreadsOK' /\ HandlesInv'
  BY <1>1 DEF ThreadsOK, HandlesInv, Scanned
<1>3. CASE NotFound
  <2>1. \A i \in 1..ToScan : Scanned(i) \notin device
    BY <1>3 DEF NotFound, JoinedInv, HandlesInv
  <2> QED BY <1>1, <1>2, <1>3, <2>1 DEF NotFound, JoinedInv, FirstFound, Scanned, ToScan
<1>4. CASE AllSpawned
  BY <1>1, <1>2, <1>4 DEF AllSpawned, JoinedInv, FirstFound, ToScan
<1> QED BY <1>3, <1>4

LEMMA SearchStep ==
    ASSUME SearchInv, [DiscoveryNext]_discoveryVars PROVE SearchInv'
<1>1. CASE UNCHANGED discoveryVars
  BY <1>1 DEF SearchInv, ThreadsOK, HandlesInv, JoinedInv, FirstFound, Scanned, ToScan,
              discoveryVars, networkVars
<1>2. CASE DiscoveryMain
  BY <1>2, AskKeeps, SpawnKeeps, JoinKeeps, GivesUpKeeps DEF DiscoveryMain
<1>3. CASE DiscoveryThread
  BY <1>3, ThreadKeeps DEF DiscoveryThread
<1> QED BY <1>1, <1>2, <1>3 DEF DiscoveryNext

-----------------------------------------------------------------------------

(* What a thread returned, and how far main is with them, says which       *)
(* addresses hold no tuner.                                                *)
THEOREM SearchInvariant == DiscoverySpec => []SearchInv
  BY SearchInit, SearchStep, PTL DEF DiscoverySpec

(* Whatever the order in which the threads end, what is found is the tuner *)
(* with the name, or the first one of the scan.                            *)
THEOREM SameTunerAtEveryStart == DiscoverySpec => []FirstFound
<1>1. SearchInv => FirstFound
  BY DEF SearchInv
<1> QED BY <1>1, SearchInvariant, PTL

-----------------------------------------------------------------------------
(* All addresses, each once.                                               *)

LEMMA QuotientBelow ==
    ASSUME NEW n \in Nat, NEW d \in Nat \ {0}, NEW m \in Nat, n < m * d
    PROVE  n \div d < m
<1> DEFINE q == n \div d
<1>1. q \in Nat /\ n >= d * q
  BY Quotient
<1>2. SUFFICES ASSUME q >= m PROVE FALSE
  BY <1>1
<1> HIDE DEF q
<1>3. d * q >= d * m
  BY <1>1, <1>2
<1> QED BY <1>1, <1>3

LEMMA ScannedOnce ==
    ASSUME subnets \in Lists
    PROVE  /\ ToScan \in Nat
           /\ \A i \in 1..ToScan : Scanned(i) \in Address
           /\ \A i, j \in 1..ToScan : Scanned(i) = Scanned(j) => i = j
<1> USE DiscoveryAssumption
<1>1. subnets \in Seq(Subnet) /\ Distinct(subnets) /\ Len(subnets) \in Nat
  BY DEF Lists
<1>2. ToScan \in Nat
  BY <1>1 DEF ToScan
<1>3. ASSUME NEW i \in 1..ToScan
      PROVE  /\ 1 + ((i - 1) \div Hosts) \in 1..Len(subnets)
             /\ 1 + ((i - 1) % Hosts) \in 1..Hosts
             /\ i - 1 = Hosts * ((i - 1) \div Hosts) + ((i - 1) % Hosts)
             /\ (i - 1) \div Hosts \in Nat /\ (i - 1) % Hosts \in Nat
  <2>1. i - 1 \in Nat /\ i - 1 < Len(subnets) * Hosts
    BY <1>2 DEF ToScan
  <2>2. (i - 1) \div Hosts < Len(subnets)
    BY <1>1, <2>1, QuotientBelow
  <2>3. /\ (i - 1) \div Hosts \in Nat /\ (i - 1) % Hosts \in 0..(Hosts - 1)
        /\ i - 1 = Hosts * ((i - 1) \div Hosts) + ((i - 1) % Hosts)
    BY <2>1, Quotient
  <2> DEFINE q == (i - 1) \div Hosts
             r == (i - 1) % Hosts
  <2> HIDE DEF q, r
  <2>4. q \in Nat /\ q < Len(subnets) /\ r \in 0..(Hosts - 1)
    BY <2>2, <2>3 DEF q, r
  <2>5. 1 + q \in 1..Len(subnets) /\ 1 + r \in 1..Hosts /\ r \in Nat
    BY <1>1, <2>4
  <2> QED BY <2>3, <2>5 DEF q, r
<1>4. ASSUME NEW i \in 1..ToScan PROVE Scanned(i) \in Address
  BY <1>1, <1>3 DEF Scanned, Address
<1>5. ASSUME NEW i \in 1..ToScan, NEW j \in 1..ToScan, Scanned(i) = Scanned(j)
      PROVE  i = j
  <2>1. /\ subnets[1 + ((i - 1) \div Hosts)] = subnets[1 + ((j - 1) \div Hosts)]
        /\ 1 + ((i - 1) % Hosts) = 1 + ((j - 1) % Hosts)
    BY <1>5 DEF Scanned
  <2>2. 1 + ((i - 1) \div Hosts) = 1 + ((j - 1) \div Hosts)
    BY <1>1, <1>3, <2>1 DEF Distinct
  <2> DEFINE qi == (i - 1) \div Hosts
             qj == (j - 1) \div Hosts
             ri == (i - 1) % Hosts
             rj == (j - 1) % Hosts
  <2>3. qi \in Nat /\ qj \in Nat /\ ri \in Nat /\ rj \in Nat
    BY <1>3
  <2>4. i - 1 = Hosts * qi + ri /\ j - 1 = Hosts * qj + rj
    BY <1>3
  <2>5. 1 + qi = 1 + qj /\ 1 + ri = 1 + rj
    BY <2>1, <2>2
  <2> HIDE DEF qi, qj, ri, rj
  <2>6. qi = qj /\ ri = rj
    BY <2>3, <2>5
  <2>7. i - 1 = j - 1
    BY <2>4, <2>6
  <2> QED BY <2>7
<1> QED BY <1>2, <1>4, <1>5

(* A process has as many threads running as it has spawned, at most.       *)
LEMMA RunningBounded ==
    ASSUME handles \in Seq({"runs", "none", "some"})
    PROVE  Cardinality(Running) \in Nat /\ Cardinality(Running) <= Len(handles)
<1>1. Len(handles) \in Nat /\ Running \subseteq 1..Len(handles)
  BY DEF Running
<1>2. IsFiniteSet(1..Len(handles)) /\ Cardinality(1..Len(handles)) = Len(handles)
  BY <1>1, FS_Interval
<1> QED BY <1>1, <1>2, FS_Subset, FS_CardinalityType

(* The subnets are as detected; without the threads it needs, the search   *)
(* ends before it has begun in earnest.                                    *)
SubnetsInv == subnets \in Lists
PanickedInv == stage = "panicked" => ToScan > MaxThreads

DiscoveryInv == SearchInv /\ DiscoveryTypeOK /\ SubnetsInv /\ PanickedInv

LEMMA DiscoveryInitInv == ASSUME DiscoveryInit PROVE DiscoveryInv
<1>1. SearchInv
  BY SearchInit
<1>2. PICK r \in Routes : subnets = DetectSubnets(r)
  BY DEF DiscoveryInit
<1>3. subnets \in Lists /\ subnets \in Seq(Subnet) /\ subnets # << >>
  BY <1>2, DetectedDistinct DEF Lists
<1>4. device \subseteq Address /\ busy \subseteq Address \ device
  <2>1. PICK t \in SUBSET Address : device \in SUBSET t /\ busy = t \ device
    BY DEF DiscoveryInit
  <2> QED BY <2>1
<1>5. /\ named \in Address \cup {NoAddress} /\ hdhr_host \in Address \cup {NoAddress}
      /\ handles = << >> /\ stage = "mdns" /\ joined = 0
  BY DEF DiscoveryInit
<1>6. /\ handles \in Seq({"runs", "none", "some"}) /\ Len(handles) <= ToScan
      /\ joined \in 0..Len(handles)
  <2>1. handles \in Seq({"runs", "none", "some"}) /\ Len(handles) = 0
    BY <1>5
  <2>2. ToScan \in Nat
    BY <1>3, ScannedOnce
  <2> QED BY <1>5, <2>1, <2>2
<1>7. DiscoveryTypeOK
  BY <1>3, <1>4, <1>5, <1>6 DEF DiscoveryTypeOK
<1> QED BY <1>1, <1>3, <1>5, <1>7 DEF DiscoveryInv, SubnetsInv, PanickedInv

LEMMA DiscoveryStepInv ==
    ASSUME DiscoveryInv, [DiscoveryNext]_discoveryVars PROVE DiscoveryInv'
<1> USE DEF DiscoveryInv
<1>1. SearchInv'
  BY SearchStep
<1>2. UNCHANGED <<device, busy, named, subnets>> /\ ToScan' = ToScan
  BY DEF discoveryVars, networkVars, DiscoveryNext, DiscoveryMain, DiscoveryThread, AskMdns,
         Spawn, AllSpawned, JoinNext, NotFound, ThreadEnds, ToScan
<1>3. SubnetsInv'
  BY <1>2 DEF SubnetsInv
<1>4. PanickedInv'
  <2>1. CASE stage' = stage
    BY <1>2, <2>1 DEF PanickedInv
  <2>2. CASE Spawn
    <3>1. ASSUME stage' = "panicked" PROVE ToScan > MaxThreads
      <4>1. Len(handles) < ToScan /\ ~(Cardinality(Running) < MaxThreads)
        BY <2>2, <3>1 DEF Spawn
      <4>2. Cardinality(Running) \in Nat /\ Cardinality(Running) <= Len(handles)
        BY RunningBounded DEF DiscoveryTypeOK
      <4>3. ToScan \in Nat /\ MaxThreads \in Nat /\ Len(handles) \in Nat
        BY ScannedOnce, DiscoveryAssumption DEF SubnetsInv, DiscoveryTypeOK
      <4> QED BY <4>1, <4>2, <4>3
    <3> QED BY <1>2, <3>1 DEF PanickedInv
  <2>3. CASE AskMdns \/ AllSpawned \/ JoinNext \/ NotFound
    <3>1. stage' # "panicked" \/ stage' = stage
      BY <2>3 DEF AskMdns, AllSpawned, JoinNext, NotFound, Found
    <3> QED BY <1>2, <3>1 DEF PanickedInv
  <2>4. CASE DiscoveryThread \/ UNCHANGED discoveryVars
    BY <2>1, <2>4 DEF DiscoveryThread, ThreadEnds, discoveryVars
  <2> QED BY <2>2, <2>3, <2>4 DEF DiscoveryNext, DiscoveryMain
<1>5. DiscoveryTypeOK'
  <2> USE DEF DiscoveryTypeOK
  <2>s. /\ ToScan \in Nat /\ Len(handles) \in Nat
        /\ \A i \in 1..ToScan : Scanned(i) \in Address
    BY ScannedOnce DEF SubnetsInv
  <2>1. CASE AskMdns
    <3>1. UNCHANGED <<handles, joined>> /\ stage' \in {"found", "spawns"}
          /\ hdhr_host' \in {named, hdhr_host}
      BY <2>1 DEF AskMdns, Found
    <3> QED BY <1>2, <2>s, <3>1
  <2>2. CASE Spawn
    <3>1. UNCHANGED <<joined, hdhr_host>> /\ stage' \in {"panicked", stage}
          /\ Len(handles) < ToScan
          /\ (handles' = handles \/ handles' = Append(handles, "runs"))
      BY <2>2 DEF Spawn
    <3>2. handles' \in Seq({"runs", "none", "some"})
          /\ Len(handles') \in {Len(handles), Len(handles) + 1}
      BY <3>1
    <3> QED BY <1>2, <2>s, <3>1, <3>2
  <2>3. CASE AllSpawned \/ NotFound
    <3>1. UNCHANGED <<handles, joined, hdhr_host>> /\ stage' \in {"joins", "exited"}
      BY <2>3 DEF AllSpawned, NotFound
    <3> QED BY <1>2, <2>s, <3>1
  <2>4. CASE JoinNext
    <3>1. /\ UNCHANGED handles /\ joined' = joined + 1 /\ joined < ToScan
          /\ Len(handles) = ToScan
          /\ \/ stage' = "found" /\ hdhr_host' = Scanned(joined + 1)
             \/ UNCHANGED <<stage, hdhr_host>>
      BY <2>4 DEF JoinNext, Found, SearchInv, JoinedInv
    <3>2. joined' \in 0..Len(handles) /\ joined + 1 \in 1..ToScan
      BY <2>s, <3>1
    <3>3. hdhr_host' \in Address \cup {NoAddress}
      BY <2>s, <3>1, <3>2
    <3>4. stage' \in {"mdns", "spawns", "joins", "found", "exited", "panicked"}
      BY <3>1
    <3> QED BY <1>2, <3>1, <3>2, <3>3, <3>4
  <2>5. CASE DiscoveryThread
    <3>1. PICK i \in DOMAIN handles : ThreadEnds(i)
      BY <2>5 DEF DiscoveryThread
    <3>2. UNCHANGED <<stage, joined, hdhr_host>>
      BY <3>1 DEF ThreadEnds
    <3>3. handles' \in Seq({"runs", "none", "some"}) /\ Len(handles') = Len(handles)
      BY <3>1 DEF ThreadEnds
    <3> QED BY <1>2, <3>2, <3>3
  <2>6. CASE UNCHANGED discoveryVars
    BY <1>2, <2>6 DEF discoveryVars, networkVars
  <2> QED BY <2>1, <2>2, <2>3, <2>4, <2>5, <2>6 DEF DiscoveryNext, DiscoveryMain
<1> QED BY <1>1, <1>3, <1>4, <1>5

(* No address is scanned twice, whatever sockets and fib_trie hold, and a  *)
(* tuner that answers is missed only without the threads for the scan.     *)
THEOREM NoneIsMissed == DiscoverySpec => []NoneMissed
<1>2. DiscoveryInv => NoneMissed
  BY ScannedOnce DEF DiscoveryInv, SearchInv, JoinedInv, SubnetsInv, PanickedInv, NoneMissed
<1> QED BY <1>2, DiscoveryInitInv, DiscoveryStepInv, PTL DEF DiscoverySpec

-----------------------------------------------------------------------------
(* The four together.                                                      *)

LEMMA SearchOfItsOwn ==
    ASSUME LifetimesInit
    PROVE  PlaylistInit /\ ListeningInit /\ FfmpegInit /\ DiscoveryInit
  BY DEF LifetimesInit

LifetimesInv == PlaylistInv /\ ListeningInv /\ FfmpegInv /\ DiscoveryInv

LEMMA LifetimesStep ==
    ASSUME [LifetimesNext]_lifetimesVars
    PROVE  /\ [PlaylistNext]_playlistVars /\ [ListeningNext]_listeningVars
           /\ [FfmpegNext]_ffmpegVars /\ [DiscoveryNext]_discoveryVars
  BY DEF LifetimesNext, lifetimesVars

(* One component's steps leave the others as they are.                     *)
THEOREM LifetimesInvariant == LifetimesFairSpec => []LifetimesInv
<1>1. LifetimesInit => LifetimesInv
  BY SearchOfItsOwn, PlaylistInitInv, ListeningInitInv, FfmpegInitInv, DiscoveryInitInv
     DEF LifetimesInv
<1>2. LifetimesInv /\ [LifetimesNext]_lifetimesVars => LifetimesInv'
  BY LifetimesStep, PlaylistStepInv, ListeningStepInv, FfmpegStepInv, DiscoveryStepInv
     DEF LifetimesInv
<1> QED BY <1>1, <1>2, PTL DEF LifetimesFairSpec

(* The states TLC goes through are what they are meant to be, whatever the *)
(* constants.                                                              *)
THEOREM LifetimesTypeCorrect == LifetimesFairSpec => []LifetimesTypeOK
<1>1. LifetimesInv => LifetimesTypeOK
  BY DEF LifetimesInv, PlaylistInv, ListeningInv, FfmpegInv, DiscoveryInv, LifetimesTypeOK
<1> QED BY <1>1, LifetimesInvariant, PTL
=============================================================================
