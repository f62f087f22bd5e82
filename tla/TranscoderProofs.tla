-------------------------- MODULE TranscoderProofs --------------------------
(***************************************************************************)
(* Proofs about the loops of the two transcoders: the packets the native   *)
(* one cuts out of the device's stream, its buffer of decoded audio, and   *)
(* the frames the parser of the other one cuts out of ffmpeg's output.     *)
(***************************************************************************)
EXTENDS TsDemux, PcmBridge, AdtsParser, BasicProofs, SequenceTheorems

-----------------------------------------------------------------------------
(* TsDemux, for any payloads, a stream of any length that is cut anywhere, *)
(* and chunks of any size.  A reader that no payload has fooled is in the  *)
(* cut packet or between two packets; all else is counted from there.      *)

(* The device sends whole packets after the cut one.                       *)
StreamInv ==
    /\ (Len(stream) - cut) % TsSize = 0 /\ cut <= Len(stream)
    /\ \A i \in 1..Len(stream) :
          Begins(i) => /\ i + TsSize - 1 <= Len(stream)
                       /\ stream[i] = Sync /\ stream[i + 1] \in Pids

(* What is taken begins with a sync byte and has gone through the buffer;  *)
(* no two packets overlap.                                                 *)
TakenInv ==
    /\ \A k \in 1..Len(parsed) :
          /\ parsed[k].at >= 1 /\ parsed[k].at + TsSize - 1 <= done
          /\ stream[parsed[k].at] = Sync
    /\ \A j, k \in 1..Len(parsed) : j < k => parsed[j].at + TsSize <= parsed[k].at

(* As long as no payload has fooled it, the reader is in the cut packet or *)
(* between two packets, and has taken all before.                          *)
AlignInv ==
    /\ cut = 0 => NeverFooled
    /\ NeverFooled /\ done >= cut => (done - cut) % TsSize = 0 /\ Passed \subseteq TakenAt

(* What was handed on is what is handed on now, from since on.             *)
KeptInv ==
    NeverFooled =>
        \A k \in 1..Len(parsed) :
            parsed[k].kept <=> /\ audio_pid # None /\ parsed[k].at >= since
                               /\ stream[parsed[k].at + 1] = audio_pid

PatInv ==
    NeverFooled /\ pmt_pid # None =>
        \E i \in Passed : stream[i + 1] = PatPid /\ stream[i + 2] = Pat(pmt_pid)

DemuxInv ==
    DemuxTypeOK /\ StreamInv /\ TakenInv /\ AlignInv /\ KeptInv /\ PatInv /\ PidAnnounced

-----------------------------------------------------------------------------

LEMMA Division ==
    ASSUME NEW n \in Int, NEW d \in Int, d > 0
    PROVE  n = d * (n \div d) + (n % d) /\ n \div d \in Int /\ n % d \in 0..(d - 1)
  BY Z3

(* One packet begins in five places.                                       *)
LEMMA Aligned ==
    ASSUME NEW c \in Int, NEW n \in Int, (n - c) % 5 = 0
    PROVE  /\ ((n + 1) - c) % 5 = 1 /\ ((n + 5) - c) % 5 = 0
           /\ \A i \in (n - 3)..(n + 5) : (i - c) % 5 = 1 => i = n + 1
<1>1. PICK q \in Int : n - c = 5 * q
  BY Division
<1>2. ((n + 1) - c) % 5 = 1 /\ ((n + 5) - c) % 5 = 0
  BY <1>1
<1>3. ASSUME NEW i \in (n - 3)..(n + 5), (i - c) % 5 = 1
      PROVE  i = n + 1
  <2>1. PICK r \in Int : i - c = 5 * r + 1
    BY <1>3, Division
  <2> QED BY <1>1, <2>1
<1> QED BY <1>2, <1>3

LEMMA Elements ==
    ASSUME NEW X, NEW s \in Seq(X)
    PROVE  /\ Len(s) \in Nat /\ DOMAIN s = 1..Len(s)
           /\ \A k \in 1..Len(s) : s[k] \in X
  OBVIOUS

(* The elements of a concatenation.                                        *)
LEMMA Joined ==
    ASSUME NEW X, NEW s \in Seq(X), NEW t \in Seq(X)
    PROVE  /\ s \o t \in Seq(X) /\ Len(s \o t) = Len(s) + Len(t)
           /\ \A k \in 1..Len(s) : (s \o t)[k] = s[k]
           /\ \A k \in 1..Len(t) : (s \o t)[Len(s) + k] = t[k]
  OBVIOUS

LEMMA DemuxState ==
    ASSUME DemuxTypeOK
    PROVE  /\ cut \in Nat /\ cut < TsSize /\ Len(stream) \in Nat
           /\ read \in Nat /\ read <= Len(stream) /\ done \in Nat /\ done <= read
           /\ since \in Nat /\ since <= done
           /\ \A i \in 1..Len(stream) : stream[i] \in Int
           /\ Len(parsed) \in Nat /\ DOMAIN parsed = 1..Len(parsed)
           /\ \A k \in 1..Len(parsed) : parsed[k].at \in Nat /\ parsed[k].kept \in BOOLEAN
           /\ TakenAt = {parsed[k].at : k \in 1..Len(parsed)}
<1>1. /\ cut \in Nat /\ cut < TsSize /\ Len(stream) \in Nat
      /\ read \in Nat /\ read <= Len(stream) /\ done \in Nat /\ done <= read
      /\ since \in Nat /\ since <= done
      /\ \A i \in 1..Len(stream) : stream[i] \in Int
  BY DEF DemuxTypeOK, TsSize
<1>2. parsed \in Seq([at : Nat, kept : BOOLEAN])
  BY DEF DemuxTypeOK
<1>3. /\ Len(parsed) \in Nat /\ DOMAIN parsed = 1..Len(parsed)
      /\ \A k \in 1..Len(parsed) : parsed[k] \in [at : Nat, kept : BOOLEAN]
  BY <1>2, Elements
<1> QED BY <1>1, <1>3 DEF TakenAt

(* A packet is five symbols, the first a sync byte, the second its pid.    *)
LEMMA PacketShape ==
    ASSUME NEW a \in AudioPids, NEW p \in Packets(a)
    PROVE  /\ p \in Seq(Int) /\ Len(p) = TsSize
           /\ p[1] = Sync /\ p[2] \in Pids
<1> USE DEF TsSize, PayloadSize, Pids, PatPid, PmtPid, OtherPid, AudioPids, Sync, Filler, None
<1>1. ASSUME NEW pid \in Pids, NEW t \in Int, p = TablePacket(pid, t)
      PROVE  p \in Seq(Int) /\ Len(p) = TsSize /\ p[1] = Sync /\ p[2] \in Pids
  BY <1>1 DEF TablePacket
<1>2. ASSUME NEW q \in Payloads, p = AudioPacket(a, q)
      PROVE  p \in Seq(Int) /\ Len(p) = TsSize /\ p[1] = Sync /\ p[2] \in Pids
  <2>1. q \in Seq(Int) /\ Len(q) = PayloadSize
    BY DemuxAssumption
  <2>2. <<Sync, a>> \in Seq(Int) /\ Len(<<Sync, a>>) = 2
    OBVIOUS
  <2> DEFINE h == <<Sync, a>>
  <2>3. h \in Seq(Int) /\ Len(h) = 2 /\ h[1] = Sync /\ h[2] = a /\ p = h \o q
    BY <1>2, <2>2 DEF AudioPacket
  <2> HIDE DEF h
  <2>4. /\ h \o q \in Seq(Int) /\ Len(h \o q) = Len(h) + Len(q)
        /\ (h \o q)[1] = h[1] /\ (h \o q)[2] = h[2]
    <3>1. h \in Seq(Int) /\ q \in Seq(Int)
      BY <2>1, <2>3
    <3>2. /\ h \o q \in Seq(Int) /\ Len(h \o q) = Len(h) + Len(q)
          /\ \A k \in 1..Len(h) : (h \o q)[k] = h[k]
      BY <3>1, Joined, Zenon
    <3>3. 1 \in 1..Len(h) /\ 2 \in 1..Len(h)
      BY <2>3
    <3> QED BY <3>2, <3>3, Zenon
  <2>5. a \in Pids
    OBVIOUS
  <2> QED BY <2>1, <2>3, <2>4, <2>5
<1>3. /\ Pat(PmtPid) \in Int /\ Pmt(a) \in Int /\ Pmt(None) \in Int
      /\ PatPid \in Pids /\ PmtPid \in Pids
  BY DEF Pat, Pmt
<1> QED BY <1>1, <1>2, <1>3 DEF Packets

LEMMA DemuxInitInv == ASSUME DemuxInit PROVE DemuxInv
<1> USE DEF TsSize
<1>1. /\ audio = 2 /\ read = 0 /\ done = 0 /\ pmt_pid = None /\ audio_pid = None /\ since = 0
      /\ parsed = << >>
  BY DEF DemuxInit
<1>2. /\ cut \in 0..(TsSize - 1) /\ stream \in Seq(Int) /\ Len(stream) = cut
  <2>1. CASE cut = 0 /\ stream = << >>
    BY <2>1
  <2>2. ASSUME NEW p \in Packets(audio), cut \in 1..(TsSize - 1),
               stream = SubSeq(p, TsSize - cut + 1, TsSize)
        PROVE  cut \in 0..(TsSize - 1) /\ stream \in Seq(Int) /\ Len(stream) = cut
    <3>1. p \in Seq(Int) /\ Len(p) = TsSize
      BY <1>1, PacketShape DEF AudioPids
    <3>2. /\ cut \in Int /\ 1 <= cut /\ cut <= 4 /\ TsSize - cut + 1 \in Int /\ cut \in 0..4
      BY <2>2
    <3>3. TsSize - cut + 1 \in 1..(Len(p) + 1) /\ TsSize \in (TsSize - cut + 1 - 1)..Len(p)
      BY <3>1, <3>2
    <3>4. stream \in Seq(Int)
      <4>1. \A k \in (TsSize - cut + 1)..TsSize : p[k] \in Int
        <5>1. \A k \in (TsSize - cut + 1)..TsSize : k \in 1..Len(p)
          BY <3>1, <3>2
        <5>2. \A k \in 1..Len(p) : p[k] \in Int
          BY <3>1, Elements
        <5> QED BY <5>1, <5>2
      <4> QED BY <2>2, <3>2, <4>1, SubSeqProperties
    <3>5. Len(stream) = cut
      BY <2>2, <3>1, <3>2, <3>3, SubSeqProperties
    <3> QED BY <3>2, <3>4, <3>5
  <2> QED BY <2>1, <2>2 DEF DemuxInit
<1>3. parsed \in Seq([at : Nat, kept : BOOLEAN]) /\ Len(parsed) = 0 /\ DOMAIN parsed = {}
  BY <1>1
<1>4. DemuxTypeOK
  BY <1>1, <1>2, <1>3 DEF DemuxTypeOK, AudioPids
<1>5. StreamInv
  BY <1>2 DEF StreamInv, Begins
<1>6. TakenInv /\ TakenAt = {} /\ Passed = {}
  BY <1>1, <1>2, <1>3 DEF TakenInv, TakenAt, Passed
<1>7. AlignInv /\ KeptInv /\ PatInv /\ PidAnnounced
  BY <1>1, <1>2, <1>3, <1>6 DEF AlignInv, NeverFooled, KeptInv, PatInv, PidAnnounced
<1> QED BY <1>4, <1>5, <1>6, <1>7 DEF DemuxInv

(* What the device sends is added to its stream: all else stays.           *)
LEMMA DeviceKeeps ==
    ASSUME DemuxInv, DeviceSends \/ DeviceMoves
    PROVE  DemuxInv'
<1> USE DEF TsSize, DemuxInv, tables
<1>0. /\ cut \in Nat /\ cut < TsSize /\ Len(stream) \in Nat /\ done \in Nat /\ done <= Len(stream)
      /\ Len(parsed) \in Nat /\ read <= Len(stream) /\ read \in Nat /\ stream \in Seq(Int)
      /\ \A k \in 1..Len(parsed) : parsed[k].at \in Nat
  BY DemuxState DEF DemuxTypeOK
<1>1. /\ UNCHANGED <<cut, read, done, pmt_pid, audio_pid, since, parsed>>
      /\ TakenAt' = TakenAt /\ Passed' = Passed
      /\ \A i : Begins(i)' <=> Begins(i)
  BY DEF DeviceSends, DeviceMoves, TakenAt, Passed, Begins
<1>2. NeverFooled' <=> NeverFooled
  BY <1>1 DEF NeverFooled
<1>3. /\ stream' \in Seq(Int) /\ Len(stream') >= Len(stream) /\ Len(stream') \in Nat
      /\ \A i \in 1..Len(stream) : stream'[i] = stream[i]
      /\ StreamInv' /\ audio' \in AudioPids
  <2>1. CASE DeviceMoves
    BY <1>0, <1>1, <2>1 DEF DeviceMoves, StreamInv, Begins
  <2>2. CASE DeviceSends
    <3>1. PICK p \in Packets(audio) : stream' = stream \o p
      BY <2>2 DEF DeviceSends
    <3>2. /\ p \in Seq(Int) /\ Len(p) = 5 /\ p[1] = Sync /\ p[2] \in Pids
          /\ audio' = audio /\ audio \in AudioPids
      BY <2>2, PacketShape DEF DeviceSends, DemuxTypeOK
    <3>3. /\ stream' \in Seq(Int) /\ Len(stream') = Len(stream) + 5
          /\ \A i \in 1..Len(stream) : stream'[i] = stream[i]
          /\ stream'[Len(stream) + 1] = p[1] /\ stream'[Len(stream) + 2] = p[2]
      <4>1. /\ stream \o p \in Seq(Int) /\ Len(stream \o p) = Len(stream) + Len(p)
            /\ \A k \in 1..Len(stream) : (stream \o p)[k] = stream[k]
            /\ \A k \in 1..Len(p) : (stream \o p)[Len(stream) + k] = p[k]
        <5>1. stream \in Seq(Int) /\ p \in Seq(Int)
          BY <1>0, <3>2
        <5>2. stream \o p \in Seq(Int) /\ Len(stream \o p) = Len(stream) + Len(p)
          BY <5>1, Joined, Zenon
        <5>3. \A k \in 1..Len(stream) : (stream \o p)[k] = stream[k]
          BY <5>1, Joined, Zenon
        <5>4. \A k \in 1..Len(p) : (stream \o p)[Len(stream) + k] = p[k]
          BY <5>1
        <5> QED BY <5>2, <5>3, <5>4, Zenon
      <4>2. 1 \in 1..Len(p) /\ 2 \in 1..Len(p)
        BY <3>2
      <4> QED BY <3>1, <3>2, <4>1, <4>2
    <3>4. ASSUME NEW i \in 1..Len(stream'), Begins(i)
          PROVE  /\ i + 4 <= Len(stream')
                 /\ stream'[i] = Sync /\ stream'[i + 1] \in Pids
      <4>1. CASE i \in 1..Len(stream)
        <5>1. i + 4 <= Len(stream) /\ stream[i] = Sync /\ stream[i + 1] \in Pids
          BY <3>4, <4>1 DEF StreamInv
        <5>2. i + 1 \in 1..Len(stream) /\ i + 4 <= Len(stream')
          BY <1>0, <3>3, <4>1, <5>1
        <5> QED BY <3>3, <4>1, <5>1, <5>2
      <4>2. CASE i \notin 1..Len(stream)
        <5>1. i = Len(stream) + 1
          <6>1. (Len(stream) - cut) % 5 = 0 /\ (i - cut) % 5 = 1
            BY <1>0, <3>4 DEF Begins, StreamInv
          <6>2. i \in (Len(stream) - 3)..(Len(stream) + 5)
            BY <1>0, <3>2, <3>3, <4>2
          <6>3. cut \in Int /\ Len(stream) \in Int
            BY <1>0
          <6> QED BY <6>1, <6>2, <6>3, Aligned, Zenon
        <5> QED BY <1>0, <3>2, <3>3, <5>1
      <4> QED BY <4>1, <4>2
    <3>5. (Len(stream') - cut) % 5 = 0
      BY <1>0, <3>3 DEF StreamInv
    <3>6. StreamInv'
      BY <1>0, <1>1, <3>3, <3>4, <3>5 DEF StreamInv
    <3> QED BY <1>0, <3>2, <3>3, <3>6
  <2> QED BY <2>1, <2>2
<1>4. DemuxTypeOK'
  BY <1>0, <1>1, <1>3 DEF DemuxTypeOK
<1>5. TakenInv'
  <2>1. ASSUME NEW k \in 1..Len(parsed)
        PROVE  parsed[k].at \in 1..Len(stream)
    BY <1>0 DEF TakenInv
  <2> QED BY <1>1, <1>3, <2>1 DEF TakenInv
<1>6. AlignInv'
  BY <1>1, <1>2 DEF AlignInv
<1>7. KeptInv'
  <2>1. ASSUME NEW k \in 1..Len(parsed)
        PROVE  parsed[k].at + 1 \in 1..Len(stream)
    BY <1>0 DEF TakenInv
  <2> QED BY <1>1, <1>2, <1>3, <2>1 DEF KeptInv
<1>8. PatInv' /\ PidAnnounced'
  <2>1. ASSUME NEW i \in Passed PROVE i + 1 \in 1..Len(stream) /\ i + 2 \in 1..Len(stream)
    BY <1>0 DEF Passed
  <2>2. \A i \in Passed : stream'[i + 1] = stream[i + 1] /\ stream'[i + 2] = stream[i + 2]
    BY <1>3, <2>1
  <2> QED BY <1>1, <1>2, <2>2 DEF PatInv, PidAnnounced
<1> QED BY <1>3, <1>4, <1>5, <1>6, <1>7, <1>8

LEMMA ReadKeeps ==
    ASSUME DemuxInv, NEW n \in 1..(Len(stream) - read), ReadChunk(n)
    PROVE  DemuxInv'
<1> USE DEF TsSize, DemuxInv, tables
<1>0. Len(stream) \in Nat /\ read \in Nat /\ done \in Nat /\ done <= read
  BY DemuxState
<1>1. /\ UNCHANGED <<cut, stream, audio, done, pmt_pid, audio_pid, since, parsed>>
      /\ read' = read + n
  BY DEF ReadChunk
<1>2. read' \in 0..Len(stream) /\ done \in 0..read'
  BY <1>0, <1>1
<1>3. DemuxTypeOK'
  BY <1>1, <1>2 DEF DemuxTypeOK
<1>4. StreamInv' /\ TakenInv' /\ AlignInv' /\ KeptInv' /\ PatInv' /\ PidAnnounced'
  BY <1>1 DEF StreamInv, TakenInv, AlignInv, KeptInv, PatInv, PidAnnounced, Begins, NeverFooled,
              TakenAt, Passed
<1> QED BY <1>3, <1>4

(* Between two packets the next one begins.                                *)
LEMMA NextBegins ==
    ASSUME DemuxTypeOK, StreamInv, done >= cut, (done - cut) % TsSize = 0
    PROVE  /\ Begins(done + 1)
           /\ \A i \in (done - 3)..(done + 1) : Begins(i) => i = done + 1
<1> USE DEF TsSize
<1>1. cut \in Nat /\ done \in Nat
  BY DemuxState
<1>2. ((done + 1) - cut) % 5 = 1
  BY <1>1, Aligned
<1>3. ASSUME NEW i \in (done - 3)..(done + 1), (i - cut) % 5 = 1
      PROVE  i = done + 1
  BY <1>1, <1>3, Aligned
<1> QED BY <1>1, <1>2, <1>3 DEF Begins

(* A resync happens in the cut packet only, or after a payload has fooled  *)
(* the reader; from the cut packet it goes no further than to its end.     *)
LEMMA ResyncKeeps ==
    ASSUME DemuxInv, Resync
    PROVE  DemuxInv'
<1> USE DEF DemuxInv, tables, signal
<1>0. /\ cut \in Nat /\ cut < TsSize /\ Len(stream) \in Nat /\ done \in Nat
      /\ Len(parsed) \in Nat /\ read <= Len(stream) /\ read \in Nat /\ done <= read
      /\ \A k \in 1..Len(parsed) : parsed[k].at \in Nat
  BY DemuxState
<1>1. /\ UNCHANGED <<cut, stream, audio, read, pmt_pid, audio_pid, since, parsed>>
      /\ TakenAt' = TakenAt /\ \A i : Begins(i)' <=> Begins(i)
      /\ Buffered >= TsSize /\ stream[done + 1] # Sync
  BY DEF Resync, TakenAt, Begins
<1>2. NeverFooled' <=> NeverFooled
  BY <1>1 DEF NeverFooled
<1>3. /\ done' \in Nat /\ done <= done' /\ done' <= read
      /\ \A i \in SyncsAhead : done' < i
  <2>1. CASE SyncsAhead = {}
    BY <1>0, <2>1 DEF Resync
  <2>2. CASE SyncsAhead # {}
    <3>1. PICK i \in SyncsAhead : (\A j \in SyncsAhead : i <= j) /\ done' = i - 1
      BY <2>2 DEF Resync
    <3>2. \A j \in SyncsAhead : j \in (done + 1)..read
      BY DEF SyncsAhead
    <3> QED BY <1>0, <3>1, <3>2
  <2> QED BY <2>1, <2>2
<1>4. DemuxTypeOK'
  BY <1>0, <1>1, <1>3 DEF DemuxTypeOK
<1>5. StreamInv' /\ TakenInv' /\ KeptInv'
  <2>1. StreamInv'
    BY <1>1 DEF StreamInv
  <2>2. ASSUME NEW k \in 1..Len(parsed)
        PROVE  parsed[k].at + TsSize - 1 <= done'
    BY <1>0, <1>3 DEF TakenInv, TsSize
  <2>3. TakenInv'
    BY <1>1, <2>2 DEF TakenInv
  <2>4. KeptInv'
    BY <1>1, <1>2 DEF KeptInv
  <2> QED BY <2>1, <2>3, <2>4
<1>6. ASSUME NeverFooled PROVE done < cut /\ done' <= cut
  <2>1. done < cut
    <3>1. SUFFICES ASSUME done >= cut PROVE FALSE
      BY <1>0
    <3>2. Begins(done + 1) /\ done + 1 \in 1..Len(stream)
      BY <1>0, <1>1, <1>6, <3>1, NextBegins DEF AlignInv, Buffered, TsSize
    <3> QED BY <1>1, <3>2 DEF StreamInv
  <2>2. done' <= cut
    <3>1. SUFFICES ASSUME cut + 1 <= done' PROVE FALSE
      BY <1>0, <1>3
    <3>2. cut + 1 \in (done + 1)..read /\ cut + 1 \in 1..Len(stream)
      BY <1>0, <1>3, <2>1, <3>1
    <3>3. Begins(cut + 1)
      BY <1>0 DEF Begins, TsSize
    <3>4. cut + 1 \in SyncsAhead
      BY <3>2, <3>3 DEF StreamInv, SyncsAhead
    <3> QED BY <1>0, <1>3, <3>1, <3>4
  <2> QED BY <2>1, <2>2
<1>7. AlignInv'
  <2>1. ASSUME NeverFooled, done' >= cut
        PROVE  (done' - cut) % TsSize = 0 /\ Passed' = {}
    <3>1. done' = cut
      BY <1>0, <1>3, <1>6, <2>1
    <3>2. (cut - cut) % TsSize = 0
      BY <1>0 DEF TsSize
    <3>3. Passed' = {}
      BY <1>0, <1>1, <3>1 DEF Passed, TsSize
    <3> QED BY <3>1, <3>2, <3>3
  <2> QED BY <1>1, <1>2, <2>1 DEF AlignInv
<1>8. Passed \subseteq Passed'
  BY <1>0, <1>1, <1>3 DEF Passed, TsSize
<1>9. PatInv' /\ PidAnnounced'
  BY <1>1, <1>2, <1>8 DEF PatInv, PidAnnounced
<1> QED BY <1>4, <1>5, <1>7, <1>9

(* What a table names is a pid, or nothing.                                *)
LEMMA TableNames ==
    ASSUME NEW i
    PROVE  /\ PmtPidFromPat(i) \in Pids \cup {None}
           /\ PmtPidFromPat(i) # None => stream[i + 2] = Pat(PmtPidFromPat(i))
           /\ AudioPidFromPmt(i) \in Pids \cup {None}
           /\ AudioPidFromPmt(i) # None => stream[i + 2] = Pmt(AudioPidFromPmt(i))
<1>1. \A p \in Pids : p \in 0..4
  BY DEF Pids, PatPid, PmtPid, OtherPid, AudioPids
<1>2. \A p \in Pids : Pat(p) - 10 = p /\ Pmt(p) - 20 = p
  BY <1>1 DEF Pat, Pmt
<1> QED BY <1>2 DEF PmtPidFromPat, AudioPidFromPmt

(* A packet taken where the device's packets begin is one more of those    *)
(* that passed; any other one has fooled the reader.                       *)
LEMMA TakePacketKeeps ==
    ASSUME DemuxInv, TakePacket
    PROVE  DemuxInv'
<1> USE DEF DemuxInv, signal
<1> DEFINE i == done + 1
           n == Len(parsed)
<1>0. /\ cut \in Nat /\ cut < 5 /\ Len(stream) \in Nat /\ done \in Nat
      /\ n \in Nat /\ read <= Len(stream) /\ read \in Nat /\ since \in Nat /\ since <= done
  BY DemuxState DEF TsSize
<1>1. /\ UNCHANGED <<cut, stream, audio, read>> /\ done' = done + 5
      /\ done + 5 <= read /\ i \in Nat /\ i + 4 <= Len(stream) /\ stream[i] = Sync /\ Learn(i)
      /\ parsed' = Append(parsed, [at |-> i, kept |-> stream[i + 1] = audio_pid'])
      /\ i + 1 = done + 2
  BY <1>0 DEF TakePacket, Buffered, TsSize
<1>2. /\ PmtPidFromPat(i) \in Pids \cup {None}
      /\ PmtPidFromPat(i) # None => stream[i + 2] = Pat(PmtPidFromPat(i))
      /\ AudioPidFromPmt(i) \in Pids \cup {None}
      /\ AudioPidFromPmt(i) # None => stream[i + 2] = Pmt(AudioPidFromPmt(i))
  BY TableNames
<1>3. \A j : Begins(j)' <=> Begins(j)
  BY <1>1 DEF Begins
<1>4. /\ parsed' \in Seq([at : Nat, kept : BOOLEAN]) /\ Len(parsed') = n + 1
      /\ \A k \in 1..n : parsed'[k] = parsed[k]
      /\ parsed'[n + 1].at = i /\ parsed'[n + 1].kept = (stream[i + 1] = audio_pid')
  <2> DEFINE e == [at |-> i, kept |-> stream[i + 1] = audio_pid']
  <2>1. e \in [at : Nat, kept : BOOLEAN] /\ e.at = i /\ e.kept = (stream[i + 1] = audio_pid')
    BY <1>1
  <2>2. parsed \in Seq([at : Nat, kept : BOOLEAN]) /\ parsed' = Append(parsed, e)
    BY <1>1 DEF DemuxTypeOK
  <2> HIDE DEF e, i
  <2>3. /\ parsed' \in Seq([at : Nat, kept : BOOLEAN]) /\ Len(parsed') = n + 1
        /\ \A k \in 1..n : parsed'[k] = parsed[k]
        /\ parsed'[n + 1] = e
    BY <2>1, <2>2, AppendProperties
  <2> QED BY <2>1, <2>3
<1>5. TakenAt' = TakenAt \cup {i} /\ i \notin TakenAt
  <2>1. \A k \in 1..n : parsed[k].at # i
    BY <1>0, DemuxState DEF TakenInv, TsSize
  <2>2. TakenAt = {parsed[k].at : k \in 1..n}
    BY DemuxState
  <2>3. DOMAIN parsed' = 1..(n + 1)
    BY <1>4, Elements
  <2>4. TakenAt' = {parsed'[k].at : k \in 1..(n + 1)}
    BY <2>3 DEF TakenAt
  <2>5. 1..(n + 1) = (1..n) \cup {n + 1}
    BY <1>0
  <2> HIDE DEF i, n
  <2> QED BY <1>4, <2>1, <2>2, <2>4, <2>5
<1>6. NeverFooled' <=> NeverFooled /\ Begins(i)
  BY <1>3, <1>5 DEF NeverFooled
<1>7. DemuxTypeOK'
  <2>1. pmt_pid' \in Pids \cup {None} /\ audio_pid' \in Pids \cup {None}
    BY <1>1, <1>2 DEF Learn, DemuxTypeOK
  <2>2. since' \in 0..done'
    BY <1>0, <1>1 DEF Learn
  <2>3. done' \in 0..read
    BY <1>0, <1>1
  <2> QED BY <1>1, <1>4, <2>1, <2>2, <2>3 DEF DemuxTypeOK
<1>8. StreamInv'
  BY <1>1 DEF StreamInv, Begins
<1>9. TakenInv'
  <2>1. \A k \in 1..n : /\ parsed[k].at \in Nat /\ parsed[k].at >= 1 /\ parsed[k].at + 4 <= done
                        /\ stream[parsed[k].at] = Sync
    BY DemuxState DEF TakenInv, TsSize
  <2>2. \A j, k \in 1..n : j < k => parsed[j].at + 5 <= parsed[k].at
    BY DEF TakenInv, TsSize
  <2>3. ASSUME NEW k \in 1..(n + 1)
        PROVE  /\ parsed'[k].at >= 1 /\ parsed'[k].at + 4 <= done'
               /\ stream[parsed'[k].at] = Sync
    <3>1. CASE k \in 1..n
      BY <1>0, <1>1, <1>4, <2>1, <3>1
    <3>2. CASE k = n + 1
      BY <1>0, <1>1, <1>4, <3>2
    <3> QED BY <1>0, <3>1, <3>2
  <2>4. ASSUME NEW j \in 1..(n + 1), NEW k \in 1..(n + 1), j < k
        PROVE  parsed'[j].at + 5 <= parsed'[k].at
    <3>1. CASE k \in 1..n
      <4>1. j \in 1..n
        BY <1>0, <2>4, <3>1
      <4> QED BY <1>4, <2>2, <2>4, <3>1, <4>1
    <3>2. CASE k = n + 1
      <4>1. j \in 1..n
        BY <1>0, <2>4, <3>2
      <4>2. parsed'[j] = parsed[j] /\ parsed'[k].at = i
        BY <1>4, <3>2, <4>1
      <4>3. parsed[j].at \in Nat /\ parsed[j].at + 4 <= done
        BY <2>1, <4>1
      <4> QED BY <1>0, <4>2, <4>3
    <3> QED BY <1>0, <3>1, <3>2
  <2>5. \A k \in 1..(n + 1) : parsed'[k].at + 5 - 1 <= done'
    <3>1. \A k \in 1..(n + 1) : parsed'[k] \in [at : Nat, kept : BOOLEAN]
      <4>1. \A k \in 1..Len(parsed') : parsed'[k] \in [at : Nat, kept : BOOLEAN]
        BY <1>4, Elements
      <4> QED BY <1>4, <4>1
    <3> QED BY <1>0, <1>1, <2>3, <3>1
  <2>6. /\ \A k \in 1..Len(parsed') : /\ parsed'[k].at >= 1 /\ parsed'[k].at + 5 - 1 <= done'
                                      /\ stream[parsed'[k].at] = Sync
        /\ \A j, k \in 1..Len(parsed') : j < k => parsed'[j].at + 5 <= parsed'[k].at
    BY <1>4, <2>3, <2>4, <2>5
  <2> QED BY <1>1, <2>6 DEF TakenInv, TsSize
(* Here the packet is one of the device's.                                 *)
<1>10. ASSUME NeverFooled'
       PROVE  /\ (done' - cut) % 5 = 0 /\ Passed' = Passed \cup {i}
              /\ Passed' \subseteq TakenAt' /\ stream[i + 1] \in Pids
              /\ \A j \in Passed : j < i /\ Begins(j) /\ j \in 1..Len(stream)
  <2>1. NeverFooled /\ i > cut /\ done >= cut /\ Begins(i)
    BY <1>0, <1>6, <1>10 DEF Begins
  <2>2. (done - cut) % TsSize = 0 /\ Passed \subseteq TakenAt
    BY <2>1 DEF AlignInv
  <2>3. \A j \in (done - 3)..(done + 1) : Begins(j) => j = done + 1
    BY <2>1, <2>2, NextBegins
  <2>4. (done' - cut) % 5 = 0
    BY <1>0, <1>1, <2>2, Aligned DEF TsSize
  <2>5. Passed' = {j \in (cut + 1)..(done + 1) : Begins(j)}
    BY <1>0, <1>1, <1>3 DEF Passed, TsSize
  <2>6. Passed = {j \in (cut + 1)..(done - 4) : Begins(j)}
    BY <1>0 DEF Passed, TsSize
  <2>7. Passed' = Passed \cup {i}
    <3>1. ASSUME NEW j \in Passed' PROVE j \in Passed \cup {i}
      BY <1>0, <2>3, <2>5, <2>6, <3>1
    <3>2. ASSUME NEW j \in Passed \cup {i} PROVE j \in Passed'
      BY <1>0, <2>1, <2>5, <2>6, <3>2
    <3> QED BY <3>1, <3>2
  <2>8. \A j \in Passed : j < i /\ Begins(j) /\ j \in 1..Len(stream)
    BY <1>0, <1>1, <2>6
  <2>9. stream[i + 1] \in Pids
    BY <1>0, <1>1, <2>1 DEF StreamInv
  <2> QED BY <1>5, <2>2, <2>4, <2>7, <2>8, <2>9
<1>11. AlignInv'
  <2>1. ASSUME cut = 0 PROVE NeverFooled'
    <3>1. NeverFooled /\ (done - cut) % TsSize = 0 /\ done >= cut
      BY <1>0, <2>1 DEF AlignInv
    <3> QED BY <1>6, <3>1, NextBegins
  <2> QED BY <1>1, <1>10, <2>1 DEF AlignInv, TsSize
(* A pid of the audio is known after a PMT's only.                         *)
<1>12. ASSUME NeverFooled', audio_pid # None PROVE pmt_pid # None
  <2>1. PICK j \in Passed : stream[j + 1] = pmt_pid
    BY <1>6, <1>12 DEF PidAnnounced
  <2>2. stream[j + 1] \in Pids
    BY <1>10, <1>12, <2>1 DEF StreamInv
  <2> QED BY <2>1, <2>2 DEF Pids, None, PatPid, PmtPid, OtherPid, AudioPids
<1>13. None \notin Pids /\ \A p, q \in Pids : Pat(p) # Pmt(q)
  <2>1. \A p \in Pids : p \in 0..4
    BY DEF Pids, PatPid, PmtPid, OtherPid, AudioPids
  <2> QED BY <2>1 DEF None, Pat, Pmt
<1>14. KeptInv'
  <2>1. SUFFICES ASSUME NeverFooled', NEW k \in 1..(n + 1)
                 PROVE  parsed'[k].kept <=> /\ audio_pid' # None /\ parsed'[k].at >= since'
                                            /\ stream[parsed'[k].at + 1] = audio_pid'
    BY <1>1, <1>4 DEF KeptInv
  <2>2. CASE k = n + 1
    <3>1. audio_pid' # None \/ stream[i + 1] # audio_pid'
      BY <1>10, <1>13, <2>1
    <3>2. since' <= i
      BY <1>0, <1>1 DEF Learn
    <3>3. parsed'[k].at = i /\ parsed'[k].kept = (stream[i + 1] = audio_pid')
      BY <1>4, <2>2
    <3> HIDE DEF i, n
    <3>4. parsed'[k].at >= since'
      BY <3>2, <3>3
    <3> QED BY <3>1, <3>3, <3>4
  <2>3. CASE k \in 1..n
    <3>1. /\ parsed[k].kept <=> /\ audio_pid # None /\ parsed[k].at >= since
                                /\ stream[parsed[k].at + 1] = audio_pid
          /\ parsed'[k] = parsed[k]
      BY <1>4, <1>6, <2>1, <2>3 DEF KeptInv
    <3>2. CASE audio_pid # None
      <4>1. audio_pid' = audio_pid /\ since' = since
        BY <1>1, <3>2 DEF Learn
      <4> QED BY <3>1, <4>1
    <3>3. CASE audio_pid = None
      <4>1. since' = i
        BY <1>1, <3>3 DEF Learn
      <4>2. ~(parsed[k].at >= i)
        <5>1. parsed[k].at \in Nat /\ parsed[k].at + 5 - 1 <= done
          BY <2>3, DemuxState DEF TakenInv, TsSize
        <5> QED BY <1>0, <5>1
      <4> HIDE DEF i
      <4> QED BY <3>1, <3>3, <4>1, <4>2
    <3> QED BY <3>2, <3>3
  <2> QED BY <1>0, <2>2, <2>3
<1>15. PatInv'
  <2>1. SUFFICES ASSUME NeverFooled', pmt_pid' # None
                 PROVE  \E j \in Passed' : stream[j + 1] = PatPid /\ stream[j + 2] = Pat(pmt_pid')
    BY <1>1 DEF PatInv
  <2>2. CASE pmt_pid' = pmt_pid
    BY <1>6, <1>10, <2>1, <2>2 DEF PatInv
  <2>3. CASE pmt_pid' # pmt_pid
    BY <1>1, <1>2, <1>10, <2>1, <2>3 DEF Learn
  <2> QED BY <2>2, <2>3
<1>16. PidAnnounced'
  <2>1. SUFFICES ASSUME NeverFooled', audio_pid' # None
                 PROVE  \E h, j \in Passed' :
                           /\ h < j /\ stream[h + 1] = PatPid /\ stream[h + 2] = Pat(pmt_pid')
                           /\ stream[j + 1] = pmt_pid' /\ stream[j + 2] = Pmt(audio_pid')
    BY <1>1 DEF PidAnnounced
  <2>2. CASE audio_pid # None
    <3>1. audio_pid' = audio_pid /\ pmt_pid' = pmt_pid
      BY <1>1, <1>12, <2>1, <2>2 DEF Learn
    <3> QED BY <1>6, <1>10, <2>1, <2>2, <3>1 DEF PidAnnounced
  <2>3. CASE audio_pid = None
    <3>1. stream[i + 1] = pmt_pid' /\ stream[i + 2] = Pmt(audio_pid') /\ audio_pid' \in Pids
      BY <1>1, <1>2, <2>1, <2>3 DEF Learn
    <3>2. pmt_pid' \in Pids /\ pmt_pid' # None
      BY <1>10, <1>13, <2>1, <3>1
    <3>3. PICK h \in Passed' : stream[h + 1] = PatPid /\ stream[h + 2] = Pat(pmt_pid')
      BY <1>1, <1>15, <2>1, <3>2 DEF PatInv
    <3>4. h # i
      BY <1>13, <3>1, <3>2, <3>3
    <3>5. h < i /\ i \in Passed'
      BY <1>10, <2>1, <3>3, <3>4
    <3> QED BY <3>1, <3>3, <3>5
  <2> QED BY <2>2, <2>3
<1> QED BY <1>7, <1>8, <1>9, <1>11, <1>14, <1>15, <1>16

LEMMA DemuxStepInv == DemuxInv /\ [DemuxNext]_demuxVars => DemuxInv'
<1> SUFFICES ASSUME DemuxInv, [DemuxNext]_demuxVars PROVE DemuxInv'
  OBVIOUS
<1>1. CASE DeviceSends \/ DeviceMoves
  BY <1>1, DeviceKeeps
<1>2. ASSUME NEW n \in 1..(Len(stream) - read), ReadChunk(n) PROVE DemuxInv'
  BY <1>2, ReadKeeps
<1>3. CASE Resync
  BY <1>3, ResyncKeeps
<1>4. CASE TakePacket
  BY <1>4, TakePacketKeeps
<1>5. CASE UNCHANGED demuxVars
  <2> USE <1>5 DEF demuxVars
  <2>1. DemuxTypeOK' /\ StreamInv' /\ TakenInv'
    BY DEF DemuxInv, DemuxTypeOK, StreamInv, TakenInv, Begins
  <2>2. (NeverFooled' <=> NeverFooled) /\ TakenAt' = TakenAt /\ Passed' = Passed
    BY DEF NeverFooled, TakenAt, Passed, Begins
  <2>3. AlignInv' /\ KeptInv'
    BY <2>2 DEF DemuxInv, AlignInv, KeptInv
  <2>4. PatInv' /\ PidAnnounced'
    BY <2>2 DEF DemuxInv, PatInv, PidAnnounced
  <2> QED BY <2>1, <2>3, <2>4 DEF DemuxInv
<1> QED BY <1>1, <1>2, <1>3, <1>4, <1>5 DEF DemuxNext

(* The invariant of the reader: for payloads and a stream of any length,   *)
(* cut anywhere, in chunks of any size.                                    *)
THEOREM DemuxInvariant == DemuxSpec => []DemuxInv
<1>1. DemuxInit => DemuxInv
  BY DemuxInitInv
<1> QED BY <1>1, DemuxStepInv, PTL DEF DemuxSpec

(* As long as nothing has fooled the reader, what it took is what passed.  *)
LEMMA TakenIsPassed ==
    ASSUME DemuxInv, NeverFooled
    PROVE  TakenAt = Passed
<1> USE DEF DemuxInv
<1>0. /\ cut \in Nat /\ done \in Nat /\ Len(parsed) \in Nat
      /\ \A k \in 1..Len(parsed) : parsed[k].at \in Nat
      /\ TakenAt = {parsed[k].at : k \in 1..Len(parsed)}
  BY DemuxState
<1>1. ASSUME NEW j \in TakenAt PROVE j \in Passed
  <2>1. PICK k \in 1..Len(parsed) : j = parsed[k].at
    BY <1>0
  <2>2. j \in Nat /\ j + 4 <= done /\ Begins(j)
    BY <1>0, <2>1 DEF TakenInv, TsSize, NeverFooled
  <2>3. j \in (cut + 1)..(done - TsSize + 1)
    BY <1>0, <2>2 DEF Begins, TsSize
  <2> QED BY <2>2, <2>3 DEF Passed
<1>2. ASSUME NEW j \in Passed PROVE j \in TakenAt
  <2>1. j \in (cut + 1)..(done - TsSize + 1)
    BY DEF Passed
  <2>2. done >= cut
    BY <1>0, <2>1 DEF TsSize
  <2> QED BY <2>2 DEF AlignInv
<1> QED BY <1>1, <1>2

(* PacketsFound holds: packets are lost to the cut one and to payloads.    *)
LEMMA FoundPackets == DemuxInv => PacketsFound
<1> SUFFICES ASSUME DemuxInv PROVE PacketsFound
  OBVIOUS
<1>1. OnlyCutPacketLost
  BY TakenIsPassed DEF OnlyCutPacketLost
<1>2. ASSUME ~NeverFooled
      PROVE  cut > 0 /\ \E i \in 1..Len(stream) : stream[i] = Sync /\ ~Begins(i)
  <2>0. /\ cut \in Nat /\ done \in Nat /\ Len(parsed) \in Nat /\ done <= Len(stream)
        /\ Len(stream) \in Nat
        /\ \A k \in 1..Len(parsed) : parsed[k].at \in Nat
        /\ TakenAt = {parsed[k].at : k \in 1..Len(parsed)}
    BY DemuxState DEF DemuxInv
  <2>1. cut > 0
    BY <1>2, <2>0 DEF DemuxInv, AlignInv
  <2>2. PICK k \in 1..Len(parsed) : ~Begins(parsed[k].at)
    BY <1>2, <2>0 DEF NeverFooled
  <2>3. /\ parsed[k].at >= 1 /\ parsed[k].at + TsSize - 1 <= done
        /\ stream[parsed[k].at] = Sync
    BY DEF DemuxInv, TakenInv
  <2>4. parsed[k].at \in 1..Len(stream)
    BY <2>0, <2>3 DEF TsSize
  <2> QED BY <2>1, <2>2, <2>3, <2>4
<1> QED BY <1>1, <1>2 DEF PacketsFound, FooledByPayload

(* AudioFound holds: the announced audio, all of it, in order and once.    *)
LEMMA FoundAudio == DemuxInv => AudioFound
<1> SUFFICES ASSUME DemuxInv PROVE AudioFound
  OBVIOUS
<1>1. ASSUME NeverFooled
      PROVE  KeptAt = {i \in Passed : /\ audio_pid # None /\ i >= since
                                      /\ stream[i + 1] = audio_pid}
  <2>0. DOMAIN parsed = 1..Len(parsed) /\ TakenAt = {parsed[k].at : k \in 1..Len(parsed)}
    BY DemuxState DEF DemuxInv
  <2>1. \A k \in 1..Len(parsed) :
           parsed[k].kept <=> /\ audio_pid # None /\ parsed[k].at >= since
                              /\ stream[parsed[k].at + 1] = audio_pid
    BY <1>1 DEF DemuxInv, KeptInv
  <2>2. KeptAt = {parsed[k].at : k \in {j \in 1..Len(parsed) : parsed[j].kept}}
    BY <2>0 DEF KeptAt
  <2>3. TakenAt = Passed
    BY <1>1, TakenIsPassed
  <2> QED BY <2>0, <2>1, <2>2, <2>3
<1>2. \A j, k \in DOMAIN parsed : j < k => parsed[j].at + TsSize <= parsed[k].at
  BY DemuxState DEF DemuxInv, TakenInv
<1>3. PidAnnounced
  BY DEF DemuxInv
<1> QED BY <1>1, <1>2, <1>3 DEF AudioFound, AudioComplete

(* ts_buf is a stretch of the stream, and the pids are known ones or none. *)
THEOREM DemuxTypeCorrect == DemuxSpec => []DemuxTypeOK
  BY DemuxInvariant, PTL DEF DemuxInv

(* Packets are lost to the cut one and to payloads that hold a sync byte.  *)
THEOREM PacketsAreFound == DemuxSpec => []PacketsFound
  BY DemuxInvariant, FoundPackets, PTL

(* Every packet of the announced audio is handed on, in order and once.    *)
THEOREM AudioIsFound == DemuxSpec => []AudioFound
  BY DemuxInvariant, FoundAudio, PTL

-----------------------------------------------------------------------------
(* PcmBridge, for any sizes and rates.  The loop drains the buffer below   *)
(* one frame before the next packet is decoded, so the limit is out of     *)
(* reach; all else is counting in units of a frame.                        *)

(* The buffer holds less than a frame and a packet.                        *)
BufferInv ==
    /\ \E n \in Packet \cup {0} : Pcm < AacFrameSamples + n
    /\ decoded > 0 => rate # 0
    /\ frames = << >> => pts_counter = 0

PcmInv ==
    /\ PcmTypeOK /\ BufferInv /\ NothingCleared /\ SamplesConserved /\ PtsRegular

LEMMA FrameSamples == AacFrameSamples \in Nat /\ AacFrameSamples > 0
BY PcmAssumption DEF AacFrameSamples

LEMMA StepIsNat == ASSUME rate \in Nat \ {0} PROVE PtsStep \in Nat
BY PcmAssumption DEF PtsStep

LEMMA PcmInitInv == PcmInit => PcmInv
<1> SUFFICES ASSUME PcmInit PROVE PcmInv
  OBVIOUS
<1>1. DOMAIN << >> = {} /\ << >> \in Seq(Frame) /\ Len(<< >>) = 0
  OBVIOUS
<1>2. /\ rate = 0 /\ packets = 0 /\ decoded = 0 /\ taken = 0 /\ cleared = 0
      /\ skipped = 0 /\ pts_counter = 0 /\ frames = << >> /\ DOMAIN frames = {}
      /\ Len(frames) = 0
  BY <1>1 DEF PcmInit
<1>3. PcmTypeOK
  BY <1>1, <1>2, PcmAssumption DEF PcmTypeOK
<1>4. BufferInv
  BY <1>2, FrameSamples DEF BufferInv, Pcm
<1>5. NothingCleared /\ SamplesConserved /\ PtsRegular
  BY <1>2, FrameSamples DEF NothingCleared, SamplesConserved, PtsRegular
<1> QED BY <1>3, <1>4, <1>5 DEF PcmInv

LEMMA DecodeKeeps ==
    ASSUME PcmInv, NEW n \in Packet, NEW r \in Rate, Decode(n, r)
    PROVE  PcmInv'
<1> USE DEF PcmInv
<1>1. n \in Nat /\ n + AacFrameSamples <= MaxPcmBuffer /\ r \in Nat \ {0}
  BY PcmAssumption
<1>2. ~(Pcm + n > MaxPcmBuffer)
  BY <1>1, FrameSamples, PcmAssumption DEF Decode, Pcm, PcmTypeOK
<1>3. /\ taken' = taken /\ cleared' = cleared /\ decoded' = decoded + n
      /\ packets' = packets + 1 /\ packets < MaxDecoded
      /\ rate' = IF rate = 0 THEN r ELSE rate
      /\ skipped' = skipped /\ pts_counter' = pts_counter /\ frames' = frames
  BY <1>2 DEF Decode
<1>4. PcmTypeOK'
  BY <1>1, <1>3, PcmAssumption DEF PcmTypeOK
<1>5. BufferInv'
  <2>1. Pcm' < AacFrameSamples + n
    BY <1>1, <1>3, FrameSamples DEF Decode, Pcm, PcmTypeOK
  <2>2. rate' # 0
    BY <1>1, <1>3
  <2>3. n \in Packet \cup {0} /\ (frames' = << >> => pts_counter' = 0)
    BY <1>3 DEF BufferInv
  <2> QED BY <2>1, <2>2, <2>3 DEF BufferInv
<1>6. PtsRegular'
  <2>1. CASE frames = << >>
    BY <1>3, <2>1 DEF PtsRegular
  <2>2. CASE frames # << >>
    <3>1. rate' = rate
      BY <1>3, <2>2 DEF PcmTypeOK
    <3> QED BY <1>3, <3>1 DEF PtsRegular, PtsStep
  <2> QED BY <2>1, <2>2
<1> QED BY <1>3, <1>4, <1>5, <1>6 DEF NothingCleared, SamplesConserved

(* A chunk leaves the buffer.                                              *)
LEMMA ChunkTaken ==
    ASSUME PcmInv, TakeChunk
    PROVE  /\ taken' = taken + AacFrameSamples /\ taken' \in 0..decoded
           /\ rate' = rate /\ packets' = packets /\ decoded' = decoded
           /\ cleared' = cleared /\ rate \in Nat \ {0} /\ rate \in Rate
           /\ \E n \in Packet \cup {0} : Pcm' < AacFrameSamples + n
<1> USE DEF PcmInv
<1>1. /\ taken' = taken + AacFrameSamples /\ Pcm >= AacFrameSamples
      /\ rate' = rate /\ packets' = packets /\ decoded' = decoded /\ cleared' = cleared
  BY DEF TakeChunk
<1>2. taken \in Nat /\ decoded \in Nat /\ taken <= decoded
  BY DEF PcmTypeOK
<1>3. taken' \in 0..decoded /\ decoded > 0
  BY <1>1, <1>2, FrameSamples DEF Pcm
<1>4. rate \in Nat \ {0} /\ rate \in Rate
  BY <1>3, PcmAssumption DEF BufferInv, PcmTypeOK
<1>5. \E n \in Packet \cup {0} : Pcm' < AacFrameSamples + n
  <2>1. PICK n \in Packet \cup {0} : Pcm < AacFrameSamples + n
    BY DEF BufferInv
  <2>2. Pcm' < AacFrameSamples + n
    BY <1>1, <1>2, <2>1, FrameSamples, PcmAssumption DEF Pcm
  <2> QED BY <2>2
<1> QED BY <1>1, <1>3, <1>4, <1>5

LEMMA EncodeNothingKeeps ==
    ASSUME PcmInv, EncodeNothing
    PROVE  PcmInv'
<1> USE DEF PcmInv
<1>1. /\ TakeChunk /\ skipped' = skipped + 1
      /\ pts_counter' = pts_counter /\ frames' = frames
  BY DEF EncodeNothing
<1>2. /\ taken' = taken + AacFrameSamples /\ taken' \in 0..decoded
      /\ rate' = rate /\ packets' = packets /\ decoded' = decoded
      /\ cleared' = cleared /\ rate \in Nat \ {0} /\ rate \in Rate
      /\ \E n \in Packet \cup {0} : Pcm' < AacFrameSamples + n
  BY <1>1, ChunkTaken
<1>3. PcmTypeOK' /\ BufferInv'
  BY <1>1, <1>2 DEF PcmTypeOK, BufferInv
<1>4. SamplesConserved'
  <2>1. Len(frames) \in Nat /\ skipped \in Nat
    BY DEF PcmTypeOK
  <2>2. AacFrameSamples * (Len(frames) + skipped) + AacFrameSamples
            = AacFrameSamples * (Len(frames) + (skipped + 1))
    BY <2>1, FrameSamples
  <2> QED BY <1>1, <1>2, <2>2 DEF SamplesConserved
<1> QED BY <1>1, <1>2, <1>3, <1>4 DEF NothingCleared, PtsRegular, PtsStep

LEMMA EncodeFrameKeeps ==
    ASSUME PcmInv, EncodeFrame
    PROVE  PcmInv'
<1> USE DEF PcmInv
<1> DEFINE f == [first |-> taken, pts |-> pts_counter, skipped |-> skipped]
<1>1. /\ TakeChunk /\ skipped' = skipped
      /\ pts_counter' = pts_counter + PtsStep /\ frames' = Append(frames, f)
  BY DEF EncodeFrame
<1>2. /\ taken' = taken + AacFrameSamples /\ taken' \in 0..decoded
      /\ rate' = rate /\ packets' = packets /\ decoded' = decoded
      /\ cleared' = cleared /\ rate \in Nat \ {0} /\ rate \in Rate
      /\ \E n \in Packet \cup {0} : Pcm' < AacFrameSamples + n
  BY <1>1, ChunkTaken
<1>3. f \in Frame /\ frames \in Seq(Frame) /\ skipped \in Nat /\ PtsStep \in Nat
      /\ pts_counter \in Nat
  BY <1>2, StepIsNat DEF PcmTypeOK, Frame
<1>4. /\ frames' \in Seq(Frame) /\ Len(frames') = Len(frames) + 1 /\ frames' # << >>
      /\ Len(frames) \in Nat
      /\ \A i \in DOMAIN frames : frames'[i] = frames[i]
      /\ frames'[Len(frames) + 1] = f
      /\ \A i \in DOMAIN frames' : i \in DOMAIN frames \/ i = Len(frames) + 1
  BY <1>1, <1>3
<1>5. PcmTypeOK' /\ BufferInv'
  BY <1>1, <1>2, <1>3, <1>4 DEF PcmTypeOK, BufferInv
<1>6. SamplesConserved'
  <2>1. AacFrameSamples * (Len(frames) + skipped) + AacFrameSamples
            = AacFrameSamples * (Len(frames') + skipped)
    BY <1>3, <1>4, FrameSamples
  <2>2. f.first = AacFrameSamples * ((Len(frames) + 1) - 1 + f.skipped)
    BY <1>3, <1>4, FrameSamples DEF SamplesConserved
  <2> QED BY <1>1, <1>2, <1>4, <2>1, <2>2 DEF SamplesConserved
<1>7. PtsRegular'
  <2>1. pts_counter = Len(frames) * PtsStep
    <3>1. CASE frames = << >>
      BY <1>3, <3>1 DEF BufferInv
    <3>2. CASE frames # << >>
      BY <3>2 DEF PtsRegular
    <3> QED BY <3>1, <3>2
  <2>2. Len(frames) * PtsStep + PtsStep = Len(frames') * PtsStep
    BY <1>3, <1>4
  <2>3. f.pts = ((Len(frames) + 1) - 1) * PtsStep
    BY <1>4, <2>1
  <2>4. PtsStep' = PtsStep
    BY <1>2 DEF PtsStep
  <2> QED BY <1>1, <1>4, <2>1, <2>2, <2>3, <2>4 DEF PtsRegular
<1> QED BY <1>2, <1>5, <1>6, <1>7 DEF NothingCleared

LEMMA PcmStepInv == PcmInv /\ [PcmNext]_pcmVars => PcmInv'
<1> SUFFICES ASSUME PcmInv, [PcmNext]_pcmVars PROVE PcmInv'
  OBVIOUS
<1>1. CASE UNCHANGED pcmVars
  BY <1>1 DEF PcmInv, pcmVars, PcmTypeOK, BufferInv, NothingCleared, SamplesConserved,
              PtsRegular, PtsStep, Pcm
<1>2. ASSUME NEW n \in Packet, NEW r \in Rate, Decode(n, r) PROVE PcmInv'
  BY <1>2, DecodeKeeps
<1> QED BY <1>1, <1>2, EncodeFrameKeeps, EncodeNothingKeeps DEF PcmNext

(* The inductive invariant holds for every packet size and rate.           *)
THEOREM PcmInvariant == PcmSpec => []PcmInv
BY PcmInitInv, PcmStepInv, PTL DEF PcmSpec

(* pcm_buf holds what has been decoded and not taken, never less.          *)
THEOREM PcmTypeCorrect == PcmSpec => []PcmTypeOK
<1>1. PcmInv => PcmTypeOK
  BY DEF PcmInv
<1> QED BY <1>1, PcmInvariant, PTL

(* The branch that clears pcm_buf is never taken.                          *)
THEOREM NeverCleared == PcmSpec => []NothingCleared
<1>1. PcmInv => NothingCleared
  BY DEF PcmInv
<1> QED BY <1>1, PcmInvariant, PTL

(* No sample is lost or repeated between the two frame sizes.              *)
THEOREM BridgeConserves == PcmSpec => []SamplesConserved
<1>1. PcmInv => SamplesConserved
  BY DEF PcmInv
<1> QED BY <1>1, PcmInvariant, PTL

(* Time stamps are multiples of one step.                                  *)
THEOREM StampsRegular == PcmSpec => []PtsRegular
<1>1. PcmInv => PtsRegular
  BY DEF PcmInv
<1> QED BY <1>1, PcmInvariant, PTL

(* The stamps stay within a tick per frame of the pairs of values.         *)
THEOREM StampsTrack == PcmSpec => []PtsTracksAudio
<1>1. ASSUME PcmInv PROVE PtsTracksAudio
  <2> USE DEF PcmInv
  <2> SUFFICES ASSUME NEW i \in DOMAIN frames
               PROVE  LET heard == (frames[i].first - AacFrameSamples * frames[i].skipped) * Clock
                          stamped == frames[i].pts * rate * 2
                      IN  stamped <= heard /\ heard - stamped <= (i - 1) * rate * 2
    BY DEF PtsTracksAudio
  <2>0. /\ frames \in Seq(Frame) /\ frames # << >> /\ frames[i] \in Frame
        /\ i \in Nat \ {0}
    BY <1>1 DEF PcmTypeOK
  <2>1. /\ i - 1 \in Nat /\ rate \in Nat \ {0} /\ frames[i].skipped \in Nat
        /\ Samples \in Nat /\ Clock \in Nat
    BY <1>1, <2>0, PcmAssumption DEF PcmTypeOK, Frame
  <2>2. /\ frames[i].first = (Samples * 2) * ((i - 1) + frames[i].skipped)
        /\ frames[i].pts = (i - 1) * PtsStep
    <3>1. frames[i].first = AacFrameSamples * (i - 1 + frames[i].skipped)
      BY <1>1 DEF SamplesConserved
    <3>2. frames[i].pts = (i - 1) * PtsStep
      BY <1>1 DEF PtsRegular
    <3> QED BY <3>1, <3>2 DEF AacFrameSamples
  <2>3. /\ PtsStep \in Nat /\ PtsStep * rate <= Samples * Clock
        /\ Samples * Clock < PtsStep * rate + rate
    BY <2>1 DEF PtsStep
  <2>4. frames[i].first - AacFrameSamples * frames[i].skipped = (Samples * 2) * (i - 1)
    BY <2>1, <2>2 DEF AacFrameSamples
  <2>5. ASSUME NEW k \in Nat, NEW s \in Nat, NEW c \in Nat, NEW t \in Nat, NEW q \in Nat,
               q * t <= s * c, s * c < q * t + t
        PROVE  /\ (k * q) * t * 2 <= ((s * 2) * k) * c
               /\ ((s * 2) * k) * c - (k * q) * t * 2 <= k * t * 2
    <3>1. k * (q * t) <= k * (s * c) /\ k * (s * c) <= k * (q * t + t)
      BY <2>5
    <3> QED BY <3>1
  <2>6. /\ ((i - 1) * PtsStep) * rate * 2 <= ((Samples * 2) * (i - 1)) * Clock
        /\ ((Samples * 2) * (i - 1)) * Clock - ((i - 1) * PtsStep) * rate * 2
              <= (i - 1) * rate * 2
    BY <2>1, <2>3, <2>5
  <2>7. frames[i].pts * rate * 2 = ((i - 1) * PtsStep) * rate * 2
    BY <2>2
  <2>8. (frames[i].first - AacFrameSamples * frames[i].skipped) * Clock
          = ((Samples * 2) * (i - 1)) * Clock
    BY <2>4
  <2>10. frames[i].pts * rate * 2
           <= (frames[i].first - AacFrameSamples * frames[i].skipped) * Clock
    BY ONLY <2>6, <2>7, <2>8, Zenon
  <2>11. (frames[i].first - AacFrameSamples * frames[i].skipped) * Clock
            - frames[i].pts * rate * 2 <= (i - 1) * rate * 2
    BY ONLY <2>6, <2>7, <2>8, Zenon
  <2> QED BY <2>10, <2>11, Zenon
<1> QED BY <1>1, PcmInvariant, PTL

(* For packets and frames of any size no sample is lost.                   *)
THEOREM BridgeKeepsAudio == PcmSpec => []AudioConserved
BY NeverCleared, BridgeConserves, PTL DEF AudioConserved

(* For any source rate the stamps are regular and true to the audio.       *)
THEOREM BridgeStampsSound == PcmSpec => []StampsSound
BY StampsRegular, StampsTrack, PTL DEF StampsSound

-----------------------------------------------------------------------------
(* AdtsParser, for frames of any size and content, a stream that begins    *)
(* anywhere, and chunks of any size.  The loop of push is a function by    *)
(* recursion to a later place in the stream, so that what holds of all its *)
(* turns is shown from the end of the stream to its beginning.             *)

FrameFound == [at : Nat, length : Nat]
Result == [done : Nat, frames : Seq(FrameFound)]

(* The source sends whole frames after the cut one, one behind the other.  *)
SourceInv ==
    /\ head <= Len(source) /\ head + 1 \in begins \cup {Len(source) + 1}
    /\ \A b \in begins :
          /\ b > head /\ source[b] = Sync1 /\ source[b + 1] = Sync2
          /\ b + 2 <= Len(source) /\ FrameLength(b) >= HeaderLength
          /\ b + FrameLength(b) \in begins \cup {Len(source) + 1}
          /\ \A c \in begins : b < c => b + FrameLength(b) <= c

(* Nothing up to the cut frame's end looks like a sync word in the first r *)
(* symbols.                                                                *)
Clean(r) ==
    \A i \in 1..(r - 1) :
        source[i] = Sync1 /\ source[i + 1] = Sync2 /\ i \notin begins => i > head

(* A place between two frames, or in the cut one.                          *)
Between(d) == d < head \/ d + 1 \in begins \cup {Len(source) + 1}

(* A list of frames is of those that begin after d and up to e, in order.  *)
FramesOf(fs, d, e) ==
    /\ {fs[k].at : k \in 1..Len(fs)} = {b \in begins : d < b /\ b <= e}
    /\ \A k \in 1..Len(fs) : fs[k].length = FrameLength(fs[k].at)
    /\ \A j, k \in 1..Len(fs) : j < k => fs[j].at < fs[k].at

(* After place e no frame is complete in r symbols.                        *)
NoneAfter(e, r) == \A b \in begins : b > e => b + FrameLength(b) > r + 1

(* What a parser that found the first frame has handed out.                *)
CutInv ==
    Clean(pushed) =>
        Between(consumed) /\ FramesOf(found, 0, consumed) /\ NoneAfter(consumed, pushed)

AdtsInv == AdtsTypeOK /\ SourceInv /\ CutInv

-----------------------------------------------------------------------------

(* A list with one more element in front.                                  *)
LEMMA InFront ==
    ASSUME NEW X, NEW e \in X, NEW s \in Seq(X)
    PROVE  /\ <<e>> \o s \in Seq(X) /\ Len(<<e>> \o s) = 1 + Len(s)
           /\ (<<e>> \o s)[1] = e
           /\ \A k \in 1..Len(s) : (<<e>> \o s)[1 + k] = s[k]
<1> DEFINE h == <<e>>
<1>1. h \in Seq(X) /\ Len(h) = 1 /\ h[1] = e
  OBVIOUS
<1> HIDE DEF h
<1>c. /\ h \o s \in Seq(X) /\ Len(h \o s) = Len(h) + Len(s)
      /\ \A i \in 1..(Len(h) + Len(s)) :
            (h \o s)[i] = IF i <= Len(h) THEN h[i] ELSE s[i - Len(h)]
  BY <1>1, ConcatProperties, Zenon
<1> DEFINE t == h \o s
<1>l. Len(s) \in Nat
  OBVIOUS
<1>t. /\ t \in Seq(X) /\ Len(t) = 1 + Len(s)
      /\ \A i \in 1..(1 + Len(s)) : t[i] = IF i <= 1 THEN h[i] ELSE s[i - 1]
  BY <1>1, <1>c
<1> HIDE DEF t
<1>2. h \o s \in Seq(X) /\ Len(h \o s) = 1 + Len(s)
  BY <1>t DEF t
<1>3. t[1] = e
  BY <1>1, <1>l, <1>t
<1>4. ASSUME NEW k \in 1..Len(s) PROVE t[1 + k] = s[k]
  <2>1. 1 + k \in 1..(1 + Len(s)) /\ ~(1 + k <= 1) /\ (1 + k) - 1 = k
    BY <1>l
  <2> QED BY <1>t, <2>1
<1> QED BY <1>2, <1>3, <1>4 DEF h, t

LEMMA SourceState ==
    ASSUME AdtsTypeOK, SourceInv
    PROVE  /\ head \in Nat /\ Len(source) \in Nat /\ head <= Len(source)
           /\ pushed \in Nat /\ pushed <= Len(source) /\ consumed \in Nat /\ consumed <= pushed
           /\ \A i \in 1..Len(source) : source[i] \in Nat
           /\ \A b \in begins : /\ b \in Nat /\ b >= 1 /\ FrameLength(b) \in Nat
                                /\ FrameLength(b) >= 3 /\ b + FrameLength(b) <= Len(source) + 1
                                /\ b > head
<1>1. /\ head \in Nat /\ Len(source) \in Nat /\ head <= Len(source)
      /\ pushed \in Nat /\ pushed <= Len(source) /\ consumed \in Nat /\ consumed <= pushed
      /\ \A i \in 1..Len(source) : source[i] \in Nat
      /\ \A b \in begins : b \in 1..Len(source)
  BY DEF AdtsTypeOK, SourceInv
<1>2. ASSUME NEW b \in begins
      PROVE  /\ FrameLength(b) \in Nat /\ FrameLength(b) >= 3
             /\ b + FrameLength(b) <= Len(source) + 1 /\ b > head
  <2>1. b \in 1..Len(source) /\ FrameLength(b) >= 3 /\ b > head
    BY <1>1 DEF SourceInv, HeaderLength
  <2>2. b + FrameLength(b) \in begins \cup {Len(source) + 1}
    BY DEF SourceInv
  <2>3. b + FrameLength(b) \in 1..(Len(source) + 1)
    BY <1>1, <2>2
  <2>4. FrameLength(b) \in Nat
    <3>1. b + 2 \in 1..Len(source)
      BY <1>1, <2>1 DEF SourceInv
    <3> QED BY <1>1, <3>1 DEF FrameLength
  <2> QED BY <1>1, <2>1, <2>3, <2>4
<1> QED BY <1>1, <1>2

-----------------------------------------------------------------------------
(* The loop.                                                               *)

(* One turn, at place d, with the rest of the loop as f.                   *)
Turn(f, d, r) ==
    IF Syncs(d, r) = {} THEN [done |-> d, frames |-> << >>]
    ELSE LET i == FindSync(d, r)
         IN  IF ~HasHeader(i, r) \/ r - i + 1 < FrameLength(i)
             THEN [done |-> i - 1, frames |-> << >>]
             ELSE LET rest == f[i - 1 + FrameLength(i)]
                  IN  [rest EXCEPT !.frames =
                          <<[at |-> i, length |-> FrameLength(i)]>> \o @]

LEMMA FirstSync ==
    ASSUME NEW d \in Nat, NEW r \in Nat, Syncs(d, r) # {}
    PROVE  /\ FindSync(d, r) \in Syncs(d, r)
           /\ \A j \in Syncs(d, r) : FindSync(d, r) <= j
<1>1. Syncs(d, r) \in SUBSET Nat
  BY DEF Syncs
<1>2. \E i \in Syncs(d, r) : \A j \in Syncs(d, r) : i <= j
  BY <1>1, LeastNumber
<1> QED BY <1>2 DEF FindSync

(* What a turn with result t does: it ends the loop, where it is or at a   *)
(* sync word whose frame is not there, or it takes a frame, which lies     *)
(* ahead, and goes on behind it.                                           *)
Ends(t, d, r) == Syncs(d, r) = {} /\ t.done = d /\ t.frames = << >>
Stops(t, d, r) ==
    LET i == FindSync(d, r)
    IN  /\ Syncs(d, r) # {} /\ i \in (d + 1)..(r - 1)
        /\ i + 2 > r \/ FrameLength(i) < 3 \/ r - i + 1 < FrameLength(i)
        /\ t.done = i - 1 /\ t.frames = << >>
Takes(f, t, d, r) ==
    LET i == FindSync(d, r)
        x == i - 1 + FrameLength(i)
        e == [at |-> i, length |-> FrameLength(i)]
    IN  /\ Syncs(d, r) # {} /\ i \in (d + 1)..(r - 2) /\ x \in (i + 2)..r
        /\ FrameLength(i) \in Nat /\ FrameLength(i) >= 3 /\ e \in FrameFound
        /\ t.done = f[x].done /\ t.frames = <<e>> \o f[x].frames

LEMMA TurnCases ==
    ASSUME source \in Seq(Nat), NEW r \in 0..Len(source), NEW d \in Nat, NEW f,
           \A x \in (d + 1)..r : f[x] \in Result
    PROVE  /\ Turn(f, d, r) \in Result
           /\ \/ Ends(Turn(f, d, r), d, r) \/ Stops(Turn(f, d, r), d, r)
              \/ Takes(f, Turn(f, d, r), d, r)
<1> DEFINE i == FindSync(d, r)
           x == i - 1 + FrameLength(i)
           e == [at |-> i, length |-> FrameLength(i)]
<1>0. r \in Nat /\ Len(source) \in Nat /\ r <= Len(source)
      /\ \A j \in 1..Len(source) : source[j] \in Nat
  OBVIOUS
<1>e. << >> \in Seq(FrameFound)
  OBVIOUS
<1>1. CASE Syncs(d, r) = {}
  <2>1. Turn(f, d, r) = [done |-> d, frames |-> << >>]
    BY <1>1 DEF Turn
  <2> QED BY <1>1, <1>e, <2>1 DEF Result, Ends
<1>2. CASE Syncs(d, r) # {}
  <2>1. i \in (d + 1)..(r - 1)
    BY <1>0, <1>2, FirstSync DEF Syncs
  <2>2. CASE ~HasHeader(i, r) \/ r - i + 1 < FrameLength(i)
    <3>1. Turn(f, d, r) = [done |-> i - 1, frames |-> << >>]
      BY <1>2, <2>2 DEF Turn
    <3>2. i - 1 \in Nat
      BY <1>0, <2>1
    <3>3. i + 2 > r \/ FrameLength(i) < 3 \/ r - i + 1 < FrameLength(i)
      <4>1. CASE i + 2 <= r
        <5>1. i + 2 \in 1..Len(source)
          BY <1>0, <2>1, <4>1
        <5>2. FrameLength(i) \in Nat
          BY <1>0, <5>1 DEF FrameLength
        <5> HIDE DEF i
        <5> QED BY <2>2, <4>1, <5>2 DEF HasHeader, FrameLength, HeaderLength
      <4> QED BY <1>0, <2>1, <4>1
    <3> HIDE DEF i
    <3>4. Turn(f, d, r) \in Result
      BY <1>e, <3>1, <3>2 DEF Result
    <3>5. Turn(f, d, r).done = i - 1 /\ Turn(f, d, r).frames = << >>
      BY <3>1
    <3> QED BY <1>2, <2>1, <3>3, <3>4, <3>5 DEF Stops, i
  <2>3. CASE HasHeader(i, r) /\ ~(r - i + 1 < FrameLength(i))
    <3>1. i + 2 <= r /\ source[i + 2] >= 3
      BY <2>3 DEF HasHeader, HeaderLength
    <3>2. i + 2 \in 1..Len(source)
      BY <1>0, <2>1, <3>1
    <3>3. FrameLength(i) \in Nat /\ FrameLength(i) >= 3
      BY <1>0, <3>1, <3>2 DEF FrameLength
    <3>4. i \in (d + 1)..(r - 2) /\ x \in (i + 2)..r /\ x \in (d + 1)..r
      <4>1. i \in Nat /\ d + 1 <= i /\ ~(r - i + 1 < FrameLength(i))
        BY <2>1, <2>3
      <4> DEFINE l == FrameLength(i)
      <4>2. l \in Nat /\ l >= 3 /\ ~(r - i + 1 < l)
        BY <3>3, <4>1
      <4> HIDE DEF i, l
      <4>3. i - 1 + l \in (i + 2)..r /\ i - 1 + l \in (d + 1)..r
        BY <1>0, <3>1, <4>1, <4>2
      <4> QED BY <1>0, <3>1, <4>1, <4>3 DEF l
    <3>5. e \in FrameFound
      BY <2>1, <3>3 DEF FrameFound
    <3>6. f[x] \in Result
      BY <3>4
    <3> DEFINE rest == f[x]
    <3>7. Turn(f, d, r) = [rest EXCEPT !.frames = <<e>> \o @]
      BY <1>2, <2>3 DEF Turn
    <3> HIDE DEF rest, e
    <3>8. rest \in Result
      BY <3>6 DEF rest
    <3>9. <<e>> \o rest.frames \in Seq(FrameFound)
      BY <3>5, <3>8, InFront DEF Result
    <3>10. /\ Turn(f, d, r).done = rest.done /\ Turn(f, d, r).frames = <<e>> \o rest.frames
           /\ Turn(f, d, r) \in Result
      BY <3>7, <3>8, <3>9 DEF Result
    <3> HIDE DEF i, x
    <3> HIDE DEF Result, FrameFound
    <3> QED BY <1>2, <3>3, <3>4, <3>5, <3>10 DEF rest, e, i, x, Takes
  <2> QED BY <2>2, <2>3
<1> QED BY <1>1, <1>2


(* The recursive function of Parsed exists: it is built from the end of    *)
(* the stream, place by place.                                             *)
LEMMA LoopExists ==
    ASSUME source \in Seq(Nat), NEW r \in 0..Len(source)
    PROVE  \E f \in [0..Len(source) -> Result] : \A d \in 0..Len(source) : f[d] = Turn(f, d, r)
<1> DEFINE L == Len(source)
           Built(n) == \E f \in [0..L -> Result] : \A d \in (L + 1 - n)..L : f[d] = Turn(f, d, r)
           T == {n \in Nat : n <= L + 1 => Built(n)}
<1>0. L \in Nat /\ r \in Nat /\ r <= L
  OBVIOUS
<1>1. Built(0)
  <2> DEFINE z == [done |-> 0, frames |-> << >>]
             f == [d \in 0..L |-> z]
  <2>1. z \in Result
    <3>1. << >> \in Seq(FrameFound)
      OBVIOUS
    <3> QED BY <3>1 DEF Result
  <2> HIDE DEF z
  <2>2. f \in [0..L -> Result]
    BY <2>1
  <2>3. (L + 1 - 0)..L = {}
    BY <1>0
  <2> QED BY <2>2, <2>3
<1>2. ASSUME NEW n \in Nat, Built(n), n + 1 <= L + 1 PROVE Built(n + 1)
  <2>1. PICK f \in [0..L -> Result] : \A d \in (L + 1 - n)..L : f[d] = Turn(f, d, r)
    BY <1>2
  <2> DEFINE m == L - n
             t == Turn(f, m, r)
             g == [f EXCEPT ![m] = t]
  <2>2. m \in 0..L /\ m \in Nat /\ L + 1 - (n + 1) = m /\ L + 1 - n = m + 1
    BY <1>0, <1>2
  <2>3. \A x \in 0..L : f[x] \in Result
    BY <2>1
  <2>4. t \in Result
    <3>1. \A x \in (m + 1)..r : f[x] \in Result
      BY <1>0, <2>2, <2>3
    <3> HIDE DEF m, L
    <3> QED BY <2>2, <3>1, TurnCases
  <2>5. g \in [0..L -> Result]
    <3> HIDE DEF t, m
    <3> QED BY <2>1, <2>2, <2>4
  <2>6. ASSUME NEW d \in m..L PROVE Turn(g, d, r) = Turn(f, d, r)
    <3> DEFINE i == FindSync(d, r)
               x == i - 1 + FrameLength(i)
    <3>1. d \in Nat /\ \A y \in (d + 1)..r : f[y] \in Result
      BY <1>0, <2>2, <2>3
    <3>2. CASE Syncs(d, r) = {} \/ ~HasHeader(i, r) \/ r - i + 1 < FrameLength(i)
      <4> HIDE DEF g
      <4> QED BY <3>2 DEF Turn
    <3>3. CASE Syncs(d, r) # {} /\ HasHeader(i, r) /\ ~(r - i + 1 < FrameLength(i))
      <4>1. x \in (d + 1)..r
        <5>1. i \in (d + 1)..(r - 1)
          BY <1>0, <3>1, <3>3, FirstSync DEF Syncs
        <5>2. i + 2 <= r /\ source[i + 2] >= 3
          BY <3>3 DEF HasHeader, HeaderLength
        <5>3. i + 2 \in 1..Len(source)
          BY <1>0, <3>1, <5>1, <5>2
        <5>4. FrameLength(i) \in Nat /\ FrameLength(i) >= 3
          BY <5>2, <5>3 DEF FrameLength
        <5> DEFINE l == FrameLength(i)
        <5>5. l \in Nat /\ l >= 3 /\ ~(r - i + 1 < l)
          BY <3>3, <5>4
        <5> HIDE DEF i, l
        <5>6. i - 1 + l \in (d + 1)..r
          BY <1>0, <3>1, <5>1, <5>5
        <5> QED BY <5>6 DEF l
      <4>2. x # m /\ x \in 0..L
        BY <1>0, <2>2, <4>1
      <4>3. g[x] = f[x]
        <5> HIDE DEF x, t
        <5> QED BY <2>1, <4>2
      <4> HIDE DEF g
      <4> QED BY <3>3, <4>3 DEF Turn
    <3> QED BY <3>2, <3>3
  <2>7. ASSUME NEW d \in m..L PROVE g[d] = Turn(g, d, r)
    <3>1. CASE d = m
      <4>1. g[m] = t
        <5> HIDE DEF t
        <5> QED BY <2>1, <2>2
      <4> HIDE DEF g
      <4> QED BY <2>6, <3>1, <4>1
    <3>2. CASE d # m
      <4>1. d \in (m + 1)..L
        BY <2>2, <3>2
      <4>2. g[d] = f[d]
        <5> HIDE DEF t
        <5> QED BY <2>1, <2>2, <3>2
      <4> HIDE DEF g, m
      <4> QED BY <2>1, <2>2, <2>6, <4>1, <4>2
    <3> QED BY <3>1, <3>2
  <2> HIDE DEF g, m
  <2> QED BY <2>2, <2>5, <2>7
<1>3. T = Nat
  <2> HIDE DEF Built
  <2>1. T \in SUBSET Nat /\ 0 \in T
    BY <1>1
  <2>2. ASSUME NEW n \in T PROVE n + 1 \in T
    <3>1. n \in Nat /\ (n <= L + 1 => Built(n))
      OBVIOUS
    <3> HIDE DEF L
    <3>2. CASE n + 1 <= L + 1
      BY <1>0, <1>2, <3>1, <3>2
    <3>3. CASE ~(n + 1 <= L + 1)
      BY <3>1, <3>3
    <3> QED BY <3>2, <3>3
  <2> HIDE DEF T
  <2> QED BY <2>1, <2>2, Inductive
<1>4. Built(L + 1)
  <2> HIDE DEF Built
  <2>1. L + 1 \in T
    BY <1>0, <1>3
  <2> QED BY <1>0, <2>1
<1> QED BY <1>0, <1>4

LEMMA ParsedIsLoop ==
    ASSUME source \in Seq(Nat), NEW r \in 0..Len(source), consumed \in 0..r
    PROVE  \E f : /\ \A d \in 0..Len(source) : f[d] = Turn(f, d, r)
                  /\ Parsed(r) = f[consumed]
<1> DEFINE Body(f) == [d \in 0..Len(source) |-> Turn(f, d, r)]
           f == CHOOSE g : g = Body(g)
<1>1. Parsed(r) = f[consumed]
  BY DEF Parsed, Turn
<1>2. \E g : g = Body(g)
  <2>1. PICK g \in [0..Len(source) -> Result] : \A d \in 0..Len(source) : g[d] = Turn(g, d, r)
    BY LoopExists
  <2>2. g = Body(g)
    BY <2>1
  <2> QED BY <2>2
<1>3. f = Body(f)
  <2> HIDE DEF Body
  <2> QED BY <1>2
<1>4. \A d \in 0..Len(source) : f[d] = Turn(f, d, r)
  <2>1. ASSUME NEW d \in 0..Len(source) PROVE Body(f)[d] = Turn(f, d, r)
    <3> HIDE DEF f
    <3> QED OBVIOUS
  <2> HIDE DEF f
  <2> QED BY <1>3, <2>1, Zenon
<1> QED BY <1>1, <1>4

(* A turn that is the last in r symbols to go wrong cannot, if a turn does *)
(* not go wrong when all behind it do not.                                 *)
LEMMA Backwards ==
    ASSUME NEW r \in Nat, NEW S \in SUBSET (0..r),
           \A d \in 0..r : (\A x \in (d + 1)..r : x \in S) => d \in S
    PROVE  S = 0..r
<1> SUFFICES ASSUME (0..r) \ S # {} PROVE FALSE
  OBVIOUS
<1> DEFINE T == {r - d : d \in (0..r) \ S}
<1>1. T \in SUBSET Nat /\ T # {}
  OBVIOUS
<1>2. PICK n \in T : \A m \in T : n <= m
  <2> HIDE DEF T
  <2> QED BY <1>1, LeastNumber
<1>3. PICK d \in (0..r) \ S : n = r - d
  BY <1>2
<1>4. ASSUME NEW x \in (d + 1)..r PROVE x \in S
  <2>1. SUFFICES ASSUME x \notin S PROVE FALSE
    OBVIOUS
  <2>2. r - x \in T
    BY <1>3, <2>1
  <2>3. r - d <= r - x
    BY <1>2, <1>3, <2>2
  <2> QED BY <1>3, <2>3
<1> QED BY <1>3, <1>4

LEMMA LoopTypes ==
    ASSUME source \in Seq(Nat), NEW r \in 0..Len(source), NEW f,
           \A d \in 0..Len(source) : f[d] = Turn(f, d, r)
    PROVE  \A d \in 0..r : f[d] \in Result /\ f[d].done \in d..r
<1>0. r \in Nat /\ Len(source) \in Nat /\ r <= Len(source)
  OBVIOUS
<1> DEFINE S == {d \in 0..r : f[d] \in Result /\ f[d].done \in d..r}
<1>1. ASSUME NEW d \in 0..r, \A x \in (d + 1)..r : x \in S PROVE d \in S
  <2> DEFINE i == FindSync(d, r)
             x == i - 1 + FrameLength(i)
  <2>1. f[d] = Turn(f, d, r) /\ d \in Nat
    BY <1>0
  <2>2. \A y \in (d + 1)..r : f[y] \in Result /\ f[y].done \in y..r
    BY <1>1
  <2>c. \A y \in (d + 1)..r : f[y] \in Result
    BY <2>2
  <2>4. f[d] \in Result /\ (Ends(f[d], d, r) \/ Stops(f[d], d, r) \/ Takes(f, f[d], d, r))
    BY <2>1, <2>c, TurnCases
  <2>3. \/ f[d].done = d
        \/ i \in (d + 1)..(r - 1) /\ f[d].done = i - 1
        \/ i \in (d + 1)..(r - 2) /\ x \in (i + 2)..r /\ f[d].done = f[x].done
    BY <2>4 DEF Ends, Stops, Takes
  <2> HIDE DEF i, x
  <2>5. f[d].done \in d..r
    <3>1. CASE f[d].done = d
      BY <1>0, <3>1
    <3>2. CASE i \in (d + 1)..(r - 1) /\ f[d].done = i - 1
      BY <1>0, <3>2
    <3>3. CASE i \in (d + 1)..(r - 2) /\ x \in (i + 2)..r /\ f[d].done = f[x].done
      <4>1. x \in (d + 1)..r
        BY <1>0, <3>3
      <4>2. f[x].done \in x..r
        BY <2>2, <4>1
      <4> QED BY <1>0, <3>3, <4>1, <4>2
    <3> QED BY <2>3, <3>1, <3>2, <3>3
  <2> QED BY <2>4, <2>5
<1>2. S = 0..r
  <2>1. S \in SUBSET (0..r)
    OBVIOUS
  <2> HIDE DEF S
  <2> QED BY <1>0, <1>1, <2>1, Backwards
<1> QED BY <1>2

(* From a place between two frames the loop takes every complete frame.    *)
CutsFrom(f, d, r) ==
    Between(d) => /\ Between(f[d].done) /\ FramesOf(f[d].frames, d, f[d].done)
                  /\ NoneAfter(f[d].done, r)

(* The first sync word from there on is where the next frame begins.       *)
LEMMA SyncBegins ==
    ASSUME AdtsTypeOK, SourceInv, NEW r \in 0..Len(source), Clean(r), NEW d \in 0..r, Between(d),
           Syncs(d, r) # {}
    PROVE  /\ FindSync(d, r) \in begins
           /\ \A b \in begins : d < b => FindSync(d, r) <= b
<1> DEFINE i == FindSync(d, r)
<1>0. /\ head \in Nat /\ Len(source) \in Nat /\ r \in Nat /\ d \in Nat /\ r <= Len(source)
      /\ \A b \in begins : b \in Nat /\ b > head
  BY SourceState
<1>1. /\ i \in (d + 1)..(r - 1) /\ source[i] = Sync1 /\ source[i + 1] = Sync2
      /\ \A j \in Syncs(d, r) : i <= j
  BY <1>0, FirstSync DEF Syncs
<1>2. \A b \in begins : b \in (d + 1)..(r - 1) => b \in Syncs(d, r)
  BY DEF Syncs, SourceInv
<1> HIDE DEF i
<1>3. CASE ~(d < head)
  <2>1. d + 1 \in begins
    BY <1>0, <1>1, <1>3 DEF Between
  <2>2. i = d + 1
    BY <1>0, <1>1, <1>2, <2>1
  <2> QED BY <1>0, <2>1, <2>2 DEF i
<1>4. CASE d < head
  <2>1. i > head
    <3>1. i \in 1..(r - 1)
      BY <1>0, <1>1
    <3> QED BY <1>0, <1>1, <3>1 DEF Clean
  <2>2. head + 1 \in begins
    BY <1>0, <1>1, <2>1 DEF SourceInv
  <2>3. i = head + 1
    BY <1>0, <1>1, <1>2, <1>4, <2>1, <2>2
  <2> QED BY <1>0, <2>2, <2>3 DEF i
<1> QED BY <1>3, <1>4

LEMMA LoopCuts ==
    ASSUME AdtsTypeOK, SourceInv, NEW r \in 0..Len(source), Clean(r), NEW f,
           \A d \in 0..Len(source) : f[d] = Turn(f, d, r)
    PROVE  \A d \in 0..r : CutsFrom(f, d, r)
<1>0. /\ r \in Nat /\ Len(source) \in Nat /\ r <= Len(source) /\ head \in Nat
      /\ source \in Seq(Nat)
      /\ \A b \in begins : /\ b \in Nat /\ b > head /\ FrameLength(b) \in Nat
                           /\ FrameLength(b) >= 3
      /\ \A d \in 0..r : f[d] \in Result /\ f[d].done \in d..r
  BY SourceState, LoopTypes DEF AdtsTypeOK
<1> DEFINE S == {d \in 0..r : CutsFrom(f, d, r)}
<1>1. ASSUME NEW d \in 0..r, \A x \in (d + 1)..r : x \in S PROVE d \in S
  <2> SUFFICES ASSUME Between(d)
               PROVE  /\ Between(f[d].done) /\ FramesOf(f[d].frames, d, f[d].done)
                      /\ NoneAfter(f[d].done, r)
    BY DEF CutsFrom
  <2> DEFINE i == FindSync(d, r)
             l == FrameLength(i)
             x == i - 1 + l
             e == [at |-> i, length |-> l]
  <2>1. f[d] = Turn(f, d, r) /\ d \in Nat
    BY <1>0
  <2>2. \A y \in (d + 1)..r : f[y] \in Result /\ f[y].done \in y..r
    BY <1>0, <2>1
  <2>3. ASSUME Syncs(d, r) # {}
        PROVE  i \in begins /\ \A b \in begins : d < b => i <= b
    BY <2>3, SyncBegins
  <2>4. CASE Ends(f[d], d, r)
    <3> USE <2>4 DEF Ends
    <3>1. FramesOf(<< >>, d, d)
      BY <1>0, <2>1 DEF FramesOf
    <3>2. NoneAfter(d, r)
      <4>1. SUFFICES ASSUME NEW b \in begins, b > d, ~(b + FrameLength(b) > r + 1) PROVE FALSE
        BY DEF NoneAfter
      <4>2. b \in (d + 1)..(r - 1)
        BY <1>0, <2>1, <4>1
      <4>3. b \in Syncs(d, r)
        BY <4>2 DEF Syncs, SourceInv
      <4> QED BY <2>4, <4>3
    <3> QED BY <2>4, <3>1, <3>2
  <2>5. ASSUME /\ Syncs(d, r) # {} /\ (i + 2 > r \/ l < 3 \/ r - i + 1 < l)
               /\ i \in (d + 1)..(r - 1)
               /\ f[d].done = i - 1 /\ f[d].frames = << >>
        PROVE  /\ Between(f[d].done) /\ FramesOf(f[d].frames, d, f[d].done)
               /\ NoneAfter(f[d].done, r)
    <3>1. i \in begins /\ \A b \in begins : d < b => i <= b
      BY <2>3, <2>5
    <3>2. i \in Nat /\ l \in Nat /\ l >= 3 /\ i + l > r + 1
      <4>1. i \in Nat /\ l \in Nat /\ l >= 3
        BY <1>0, <3>1
      <4>2. i + 2 > r \/ r - i + 1 < l
        BY <2>5, <4>1
      <4> HIDE DEF i, l
      <4> QED BY <1>0, <4>1, <4>2
    <3>3. \A b \in begins : i < b => i + l <= b
      BY <3>1 DEF SourceInv
    <3> HIDE DEF i, l
    <3>4. Between(i - 1)
      <4>1. (i - 1) + 1 = i
        BY <3>2
      <4> QED BY <3>1, <4>1 DEF Between
    <3>5. FramesOf(<< >>, d, i - 1)
      <4>1. ASSUME NEW b \in begins, d < b, b <= i - 1 PROVE FALSE
        <5>1. i <= b /\ b \in Nat
          BY <1>0, <3>1, <4>1
        <5> QED BY <3>2, <4>1, <5>1
      <4> QED BY <4>1 DEF FramesOf
    <3>6. NoneAfter(i - 1, r)
      <4>1. SUFFICES ASSUME NEW b \in begins, b > i - 1 PROVE b + FrameLength(b) > r + 1
        BY DEF NoneAfter
      <4>2. CASE b = i
        BY <3>2, <4>2 DEF l
      <4>3. CASE b # i
        <5>1. i + l <= b
          BY <1>0, <3>2, <3>3, <4>1, <4>3
        <5> QED BY <1>0, <3>2, <5>1
      <4> QED BY <4>2, <4>3
    <3> QED BY <2>5, <3>4, <3>5, <3>6
  <2>6. ASSUME /\ Syncs(d, r) # {} /\ i \in (d + 1)..(r - 2) /\ x \in (i + 2)..r
               /\ l \in Nat /\ l >= 3 /\ e \in FrameFound
               /\ f[d].done = f[x].done /\ f[d].frames = <<e>> \o f[x].frames
        PROVE  /\ Between(f[d].done) /\ FramesOf(f[d].frames, d, f[d].done)
               /\ NoneAfter(f[d].done, r)
    <3> DEFINE g == f[x].frames
               stop == f[x].done
    <3>1. i \in begins /\ \A b \in begins : d < b => i <= b
      BY <2>3, <2>6
    <3>2. i \in Nat /\ d < i /\ l \in Nat /\ l >= 3 /\ x = i - 1 + l /\ x \in Nat /\ x <= r
      BY <2>1, <2>6
    <3>3. \A b \in begins : i < b => i + l <= b
      BY <3>1 DEF SourceInv
    <3>4. x \in (d + 1)..r
      BY <1>0, <2>1, <2>6
    <3>5. x + 1 = i + l
      <4> HIDE DEF l, i, x
      <4> QED BY <3>2
    <3>6. Between(x)
      BY <3>1, <3>5 DEF Between, SourceInv
    <3>7. Between(stop) /\ FramesOf(g, x, stop) /\ NoneAfter(stop, r)
      BY <1>1, <3>4, <3>6 DEF CutsFrom
    <3>8. stop \in x..r /\ g \in Seq(FrameFound)
      BY <2>2, <3>4 DEF Result
    <3> HIDE DEF g, stop
    <3>9. /\ Len(<<e>> \o g) = 1 + Len(g) /\ (<<e>> \o g)[1] = e /\ Len(g) \in Nat
          /\ \A k \in 1..Len(g) : (<<e>> \o g)[1 + k] = g[k] /\ g[k] \in FrameFound
      <4> HIDE DEF e
      <4> QED BY <2>6, <3>8, InFront
    <3> DEFINE fs == <<e>> \o g
    <3>10. e.at = i /\ e.length = l
      OBVIOUS
    <3> HIDE DEF e
    <3>11. /\ Len(fs) = 1 + Len(g) /\ fs[1].at = i /\ fs[1].length = l
           /\ \A k \in 1..Len(g) : fs[1 + k] = g[k]
      BY <3>9, <3>10
    <3> HIDE DEF fs
    <3>12. \A k \in 1..Len(fs) : k = 1 \/ (k - 1 \in 1..Len(g) /\ fs[k] = g[k - 1])
      <4>1. SUFFICES ASSUME NEW k \in 1..Len(fs), k # 1
                     PROVE  k - 1 \in 1..Len(g) /\ fs[k] = g[k - 1]
        OBVIOUS
      <4>2. k - 1 \in 1..Len(g) /\ 1 + (k - 1) = k
        BY <3>9, <3>11, <4>1
      <4> QED BY <3>11, <4>2
    <3>13. \A k \in 1..Len(g) : g[k].at \in begins /\ x < g[k].at /\ g[k].at <= stop
      BY <3>7 DEF FramesOf
    <3>14. \A k \in 1..Len(g) : g[k].at \in Nat
      BY <3>9 DEF FrameFound
    <3> HIDE DEF i, l, x
    <3>15. {fs[k].at : k \in 1..Len(fs)} = {b \in begins : d < b /\ b <= stop}
      <4>1. ASSUME NEW k \in 1..Len(fs)
            PROVE  fs[k].at \in begins /\ d < fs[k].at /\ fs[k].at <= stop
        <5>1. CASE k = 1
          BY <3>1, <3>2, <3>5, <3>8, <3>11, <5>1
        <5>2. CASE k # 1
          <6>1. k - 1 \in 1..Len(g) /\ fs[k] = g[k - 1]
            BY <3>12, <5>2
          <6>2. fs[k].at \in begins /\ x < fs[k].at /\ fs[k].at <= stop /\ fs[k].at \in Nat
            BY <3>13, <3>14, <6>1
          <6> QED BY <2>1, <3>2, <3>4, <6>2
        <5> QED BY <5>1, <5>2
      <4>2. ASSUME NEW b \in begins, d < b, b <= stop
            PROVE  \E k \in 1..Len(fs) : b = fs[k].at
        <5>1. CASE b = i
          <6>1. 1 \in 1..Len(fs)
            BY <3>9, <3>11
          <6> QED BY <3>11, <5>1, <6>1
        <5>2. CASE b # i
          <6>1. x < b
            BY <1>0, <3>1, <3>2, <3>3, <3>5, <4>2, <5>2
          <6>2. PICK k \in 1..Len(g) : b = g[k].at
            BY <3>7, <4>2, <6>1 DEF FramesOf
          <6>3. 1 + k \in 1..Len(fs)
            BY <3>9, <3>11
          <6> QED BY <3>11, <6>2, <6>3
        <5> QED BY <5>1, <5>2
      <4> QED BY <4>1, <4>2
    <3>16. \A k \in 1..Len(fs) : fs[k].length = FrameLength(fs[k].at)
      <4>1. \A k \in 1..Len(g) : g[k].length = FrameLength(g[k].at)
        BY <3>7 DEF FramesOf
      <4> QED BY <3>11, <3>12, <4>1 DEF l
    <3>17. ASSUME NEW j \in 1..Len(fs), NEW k \in 1..Len(fs), j < k
           PROVE  fs[j].at < fs[k].at
      <4>1. k # 1
        BY <3>9, <3>11, <3>17
      <4>2. k - 1 \in 1..Len(g) /\ fs[k] = g[k - 1]
        BY <3>12, <4>1
      <4>3. CASE j = 1
        <5>1. x < fs[k].at /\ fs[k].at \in Nat
          BY <3>13, <3>14, <4>2
        <5> QED BY <3>2, <3>5, <3>11, <4>3, <5>1
      <4>4. CASE j # 1
        <5>1. j - 1 \in 1..Len(g) /\ fs[j] = g[j - 1] /\ j - 1 < k - 1
          <6>1. j - 1 < k - 1
            BY <3>17
          <6> QED BY <3>12, <4>4, <6>1
        <5> QED BY <3>7, <4>2, <5>1 DEF FramesOf
      <4> QED BY <4>3, <4>4
    <3>18. FramesOf(fs, d, stop)
      BY <3>15, <3>16, <3>17 DEF FramesOf
    <3> QED BY <2>6, <3>7, <3>18 DEF fs, stop, g
  <2>7. \A y \in (d + 1)..r : f[y] \in Result
    BY <2>2
  <2>8. Ends(f[d], d, r) \/ Stops(f[d], d, r) \/ Takes(f, f[d], d, r)
    BY <1>0, <2>1, <2>7, TurnCases
  <2>9. CASE Stops(f[d], d, r)
    BY <2>5, <2>9 DEF Stops
  <2>10. CASE Takes(f, f[d], d, r)
    BY <2>6, <2>10 DEF Takes
  <2> QED BY <2>4, <2>8, <2>9, <2>10
<1>2. S = 0..r
  <2>1. S \in SUBSET (0..r)
    OBVIOUS
  <2> HIDE DEF S
  <2> QED BY <1>0, <1>1, <2>1, Backwards
<1> QED BY <1>2

-----------------------------------------------------------------------------

LEMMA FrameSent ==
    ASSUME NEW p \in AacPayloads
    PROVE  /\ SourceFrame(p) \in Seq(Nat) /\ Len(SourceFrame(p)) = 3 + Len(p) /\ Len(p) \in Nat
           /\ SourceFrame(p)[1] = Sync1 /\ SourceFrame(p)[2] = Sync2
           /\ SourceFrame(p)[3] = 3 + Len(p)
<1> DEFINE h == <<Sync1, Sync2, 3 + Len(p)>>
<1>1. p \in Seq(Nat) /\ Len(p) \in Nat
  BY AdtsAssumption
<1>2. /\ h \in Seq(Nat) /\ Len(h) = 3 /\ h[1] = Sync1 /\ h[2] = Sync2 /\ h[3] = 3 + Len(p)
  BY <1>1 DEF Sync1, Sync2
<1>3. SourceFrame(p) = h \o p
  BY DEF SourceFrame, HeaderLength
<1> HIDE DEF h
<1>4. /\ h \o p \in Seq(Nat) /\ Len(h \o p) = Len(h) + Len(p)
      /\ \A k \in 1..(Len(h) + Len(p)) :
            (h \o p)[k] = IF k <= Len(h) THEN h[k] ELSE p[k - Len(h)]
  BY <1>1, <1>2, ConcatProperties, Zenon
<1>5. \A k \in 1..3 : k \in 1..(Len(h) + Len(p)) /\ k <= Len(h)
  BY <1>1, <1>2
<1>6. \A k \in 1..3 : (h \o p)[k] = h[k]
  BY <1>4, <1>5
<1>7. 1 \in 1..3 /\ 2 \in 1..3 /\ 3 \in 1..3
  OBVIOUS
<1> QED BY <1>1, <1>2, <1>3, <1>4, <1>6, <1>7

LEMMA AdtsInitInv == AdtsInit => AdtsInv
<1> SUFFICES ASSUME AdtsInit PROVE AdtsInv
  OBVIOUS
<1>1. /\ begins = {} /\ pushed = 0 /\ consumed = 0 /\ found = << >> /\ Len(found) = 0
  BY DEF AdtsInit
<1>2. head \in Nat /\ source \in Seq(Nat) /\ Len(source) = head
  <2>1. CASE head = 0 /\ source = << >>
    BY <2>1
  <2>2. ASSUME NEW p \in AacPayloads, head \in 1..(Len(p) + HeaderLength - 1),
               source = SubSeq(SourceFrame(p), Len(p) + HeaderLength - head + 1,
                               Len(p) + HeaderLength)
        PROVE  head \in Nat /\ source \in Seq(Nat) /\ Len(source) = head
    <3> DEFINE m == Len(p) + 3 - head + 1
               n == Len(p) + 3
    <3>1. /\ SourceFrame(p) \in Seq(Nat) /\ Len(SourceFrame(p)) = n /\ Len(p) \in Nat
      BY FrameSent
    <3>2. head \in Nat /\ m \in Int /\ n \in Int /\ m >= 1 /\ n - m + 1 = head /\ m <= n
      BY <2>2, <3>1 DEF HeaderLength
    <3>3. source = SubSeq(SourceFrame(p), m, n)
      BY <2>2 DEF HeaderLength
    <3> HIDE DEF m, n
    <3>4. \A k \in m..n : SourceFrame(p)[k] \in Nat
      <4>1. \A k \in m..n : k \in 1..Len(SourceFrame(p))
        BY <3>1, <3>2
      <4> QED BY <3>1, <4>1
    <3> QED BY <3>2, <3>3, <3>4, SubSeqProperties
  <2> QED BY <2>1, <2>2 DEF AdtsInit
<1>3. AdtsTypeOK
  <2>1. << >> \in Seq([at : Nat, length : Nat])
    OBVIOUS
  <2> QED BY <1>1, <1>2, <2>1 DEF AdtsTypeOK
<1>4. SourceInv
  BY <1>1, <1>2 DEF SourceInv
<1>5. Between(consumed) /\ FramesOf(found, 0, consumed) /\ NoneAfter(consumed, pushed)
  BY <1>1, <1>2 DEF Between, FramesOf, NoneAfter
<1> QED BY <1>3, <1>4, <1>5 DEF AdtsInv, CutInv

(* What the source sends is added to its stream, where its last frame      *)
(* ended: nothing that was in it changes.                                  *)
LEMMA SourceKeeps ==
    ASSUME AdtsInv, NEW p \in AacPayloads, SourceSends(p)
    PROVE  AdtsInv'
<1> USE DEF AdtsInv
<1> DEFINE F == SourceFrame(p)
<1>l. PICK L \in Nat : L = Len(source)
  BY DEF AdtsTypeOK
<1>0. /\ head \in Nat /\ L \in Nat /\ head <= L /\ pushed \in Nat /\ pushed <= L
      /\ consumed \in Nat /\ consumed <= pushed /\ source \in Seq(Nat)
      /\ \A b \in begins : /\ b \in Nat /\ b >= 1 /\ FrameLength(b) \in Nat
                           /\ FrameLength(b) >= 3 /\ b + FrameLength(b) <= L + 1 /\ b > head
  BY <1>l, SourceState DEF AdtsTypeOK
<1>1. /\ UNCHANGED <<head, pushed, consumed, found>> /\ source' = source \o F
      /\ begins' = begins \cup {L + 1}
  BY <1>l DEF SourceSends
<1>2. /\ F \in Seq(Nat) /\ Len(F) = 3 + Len(p) /\ Len(p) \in Nat
      /\ F[1] = Sync1 /\ F[2] = Sync2 /\ F[3] = 3 + Len(p)
  BY FrameSent
<1> HIDE DEF F
<1>3. /\ source' \in Seq(Nat) /\ Len(source') = L + 3 + Len(p)
      /\ \A k \in 1..L : source'[k] = source[k]
      /\ source'[L + 1] = Sync1 /\ source'[L + 2] = Sync2 /\ source'[L + 3] = 3 + Len(p)
  <2>1. /\ source \o F \in Seq(Nat) /\ Len(source \o F) = L + Len(F)
        /\ \A k \in 1..(L + Len(F)) : (source \o F)[k] = IF k <= L THEN source[k] ELSE F[k - L]
    <3>1. source \in Seq(Nat) /\ F \in Seq(Nat)
      BY <1>0, <1>2
    <3>2. /\ source \o F \in Seq(Nat) /\ Len(source \o F) = Len(source) + Len(F)
          /\ \A k \in 1..(Len(source) + Len(F)) :
                (source \o F)[k] = IF k <= Len(source) THEN source[k] ELSE F[k - Len(source)]
      BY <3>1, ConcatProperties, Zenon
    <3> QED BY <1>l, <3>2, Zenon
  <2> DEFINE t == source \o F
  <2> HIDE DEF t
  <2>2. /\ t \in Seq(Nat) /\ Len(t) = L + (3 + Len(p))
        /\ \A k \in 1..(L + (3 + Len(p))) : t[k] = IF k <= L THEN source[k] ELSE F[k - L]
    BY <1>2, <2>1 DEF t
  <2>3. /\ L + 1 \in 1..(L + (3 + Len(p))) /\ ~(L + 1 <= L) /\ (L + 1) - L = 1
        /\ L + 2 \in 1..(L + (3 + Len(p))) /\ ~(L + 2 <= L) /\ (L + 2) - L = 2
        /\ L + 3 \in 1..(L + (3 + Len(p))) /\ ~(L + 3 <= L) /\ (L + 3) - L = 3
        /\ \A k \in 1..L : k \in 1..(L + (3 + Len(p))) /\ k <= L
        /\ L + (3 + Len(p)) = L + 3 + Len(p)
    BY <1>0, <1>2
  <2>4. t[L + 1] = Sync1 /\ t[L + 2] = Sync2 /\ t[L + 3] = 3 + Len(p)
    BY <1>2, <2>2, <2>3
  <2>5. \A k \in 1..L : t[k] = source[k]
    BY <2>2, <2>3
  <2> QED BY <1>1, <2>2, <2>3, <2>4, <2>5 DEF t
<1>4. \A b \in begins : /\ b \in 1..L /\ b + 1 \in 1..L /\ b + 2 \in 1..L
                        /\ FrameLength(b)' = FrameLength(b)
  <2>1. ASSUME NEW b \in begins PROVE b \in 1..L /\ b + 1 \in 1..L /\ b + 2 \in 1..L
    BY <1>0
  <2>2. ASSUME NEW b \in begins PROVE FrameLength(b)' = FrameLength(b)
    <3>1. source'[b + 2] = source[b + 2]
      BY <1>3, <2>1
    <3> QED BY <3>1 DEF FrameLength
  <2> QED BY <2>1, <2>2
<1>5. FrameLength(L + 1)' = 3 + Len(p)
  <2>1. (L + 1) + 2 = L + 3
    BY <1>0
  <2> QED BY <1>3, <2>1 DEF FrameLength
<1>6. AdtsTypeOK'
  <2>1. DOMAIN source' = 1..(L + 3 + Len(p))
    BY <1>3
  <2>2. begins' \subseteq 1..(L + 3 + Len(p))
    <3>1. L + 1 \in 1..(L + 3 + Len(p)) /\ \A b \in 1..L : b \in 1..(L + 3 + Len(p))
      BY <1>0, <1>2
    <3>2. begins \subseteq 1..L
      BY <1>4
    <3> QED BY <1>1, <3>1, <3>2
  <2>3. pushed \in 0..(L + 3 + Len(p))
    BY <1>0, <1>2
  <2> QED BY <1>1, <1>3, <2>1, <2>2, <2>3 DEF AdtsTypeOK
<1>7. SourceInv'
  <2>1. head <= Len(source')
    BY <1>0, <1>2, <1>3
  <2>2. head + 1 \in begins'
    BY <1>1, <1>l DEF SourceInv
  <2>3. ASSUME NEW b \in begins
        PROVE  /\ b > head /\ source'[b] = Sync1 /\ source'[b + 1] = Sync2
               /\ b + 2 <= Len(source') /\ FrameLength(b)' >= 3
               /\ b + FrameLength(b)' \in begins'
               /\ \A c \in begins' : b < c => b + FrameLength(b)' <= c
    <3>1. /\ b > head /\ source[b] = Sync1 /\ source[b + 1] = Sync2
          /\ b + FrameLength(b) \in begins \cup {L + 1}
          /\ \A c \in begins : b < c => b + FrameLength(b) <= c
      BY <1>l DEF SourceInv
    <3>2. source'[b] = source[b] /\ source'[b + 1] = source[b + 1]
      BY <1>3, <1>4
    <3>3. b + 2 <= Len(source')
      BY <1>0, <1>2, <1>3, <1>4
    <3> QED BY <1>0, <1>1, <1>4, <3>1, <3>2, <3>3
  <2>4. /\ L + 1 > head /\ source'[L + 1] = Sync1 /\ source'[(L + 1) + 1] = Sync2
        /\ (L + 1) + 2 <= Len(source') /\ FrameLength(L + 1)' >= 3
        /\ (L + 1) + FrameLength(L + 1)' = Len(source') + 1
        /\ \A c \in begins' : ~(L + 1 < c)
    <3>1. (L + 1) + 1 = L + 2 /\ (L + 1) + (3 + Len(p)) = (L + 3 + Len(p)) + 1
      BY <1>0, <1>2
    <3>2. \A c \in begins' : c \in Nat /\ c <= L + 1
      BY <1>0, <1>1, <1>4
    <3>3. \A c \in begins' : ~(L + 1 < c)
      BY <1>0, <3>2
    <3>4. L + 1 > head /\ (L + 1) + 2 <= L + 3 + Len(p) /\ 3 + Len(p) >= 3
      BY <1>0, <1>2
    <3> QED BY <1>3, <1>5, <3>1, <3>3, <3>4
  <2>5. ASSUME NEW b \in begins'
        PROVE  /\ b > head /\ source'[b] = Sync1 /\ source'[b + 1] = Sync2
               /\ b + 2 <= Len(source') /\ FrameLength(b)' >= 3
               /\ b + FrameLength(b)' \in begins' \cup {Len(source') + 1}
               /\ \A c \in begins' : b < c => b + FrameLength(b)' <= c
    <3>1. CASE b \in begins
      BY <2>3, <3>1
    <3>2. CASE b = L + 1
      <4>1. FrameLength(b)' = FrameLength(L + 1)'
        BY <3>2 DEF FrameLength
      <4> QED BY <2>4, <3>2, <4>1
    <3> QED BY <1>1, <3>1, <3>2
  <2> QED BY <1>1, <2>1, <2>2, <2>5 DEF SourceInv, HeaderLength
<1>8. CutInv'
  <2>1. SUFFICES ASSUME Clean(pushed)'
                 PROVE  (Between(consumed) /\ FramesOf(found, 0, consumed)
                            /\ NoneAfter(consumed, pushed))'
    BY DEF CutInv
  <2>2. Clean(pushed)
    <3>1. SUFFICES ASSUME NEW k \in 1..(pushed - 1), source[k] = Sync1, source[k + 1] = Sync2,
                          k \notin begins
                   PROVE  k > head
      BY DEF Clean
    <3>2. k \in 1..L /\ k + 1 \in 1..L /\ k # L + 1
      BY <1>0
    <3>3. source'[k] = Sync1 /\ source'[k + 1] = Sync2 /\ k \notin begins'
      BY <1>1, <1>3, <3>1, <3>2
    <3> QED BY <1>1, <2>1, <3>3 DEF Clean
  <2>3. Between(consumed) /\ FramesOf(found, 0, consumed) /\ NoneAfter(consumed, pushed)
    BY <2>2 DEF CutInv
  <2>4. Between(consumed)'
    BY <1>1, <1>l, <2>3 DEF Between
  <2>5. FramesOf(found, 0, consumed)'
    <3>1. {b \in begins' : 0 < b /\ b <= consumed} = {b \in begins : 0 < b /\ b <= consumed}
      BY <1>0, <1>1
    <3>2. \A k \in 1..Len(found) : found[k].at \in begins
      BY <2>3 DEF FramesOf
    <3>3. \A k \in 1..Len(found) : FrameLength(found[k].at)' = FrameLength(found[k].at)
      BY <1>1, <1>4, <3>2
    <3> QED BY <1>1, <2>3, <3>1, <3>3 DEF FramesOf
  <2>6. NoneAfter(consumed, pushed)'
    <3>1. \A b \in begins : b > consumed => b + FrameLength(b)' > pushed + 1
      BY <1>4, <2>3 DEF NoneAfter
    <3>2. (L + 1) + FrameLength(L + 1)' > pushed + 1
      <4>1. (L + 1) + (3 + Len(p)) > pushed + 1
        BY <1>0, <1>2
      <4> QED BY <1>5, <4>1
    <3>3. ASSUME NEW b \in begins', b > consumed PROVE b + FrameLength(b)' > pushed + 1
      <4>1. CASE b = L + 1
        <5>1. FrameLength(b)' = FrameLength(L + 1)'
          BY <4>1 DEF FrameLength
        <5> QED BY <3>2, <4>1, <5>1
      <4> QED BY <1>1, <3>1, <3>3, <4>1
    <3> QED BY <1>1, <3>3 DEF NoneAfter
  <2> QED BY <2>4, <2>5, <2>6
<1> QED BY <1>6, <1>7, <1>8

(* Lists of frames up to a place and from there on make one list.          *)
LEMMA FramesJoin ==
    ASSUME NEW fs \in Seq(FrameFound), NEW gs \in Seq(FrameFound),
           NEW d \in Nat, NEW e \in Nat, d <= e, begins \subseteq Nat \ {0},
           FramesOf(fs, 0, d), FramesOf(gs, d, e)
    PROVE  FramesOf(fs \o gs, 0, e)
<1> DEFINE hs == fs \o gs
           m == Len(fs)
           n == Len(gs)
<1>0. /\ m \in Nat /\ n \in Nat
      /\ \A k \in 1..m : fs[k].at \in begins /\ fs[k].at \in Nat /\ fs[k].at <= d
      /\ \A k \in 1..n : gs[k].at \in begins /\ gs[k].at \in Nat /\ d < gs[k].at /\ gs[k].at <= e
  <2>1. m \in Nat /\ n \in Nat
    OBVIOUS
  <2>2. \A k \in 1..m : fs[k].at \in begins /\ fs[k].at <= d
    BY DEF FramesOf
  <2>3. \A k \in 1..n : gs[k].at \in begins /\ d < gs[k].at /\ gs[k].at <= e
    BY DEF FramesOf
  <2> QED BY <2>1, <2>2, <2>3
<1>1. /\ Len(hs) = m + n
      /\ \A k \in 1..m : hs[k] = fs[k]
      /\ \A k \in 1..n : hs[m + k] = gs[k]
  <2>1. /\ Len(fs \o gs) = Len(fs) + Len(gs)
        /\ \A k \in 1..(Len(fs) + Len(gs)) :
              (fs \o gs)[k] = IF k <= Len(fs) THEN fs[k] ELSE gs[k - Len(fs)]
    BY ConcatProperties, Zenon
  <2> HIDE DEF hs, m, n
  <2>2. /\ Len(hs) = m + n
        /\ \A k \in 1..(m + n) : hs[k] = IF k <= m THEN fs[k] ELSE gs[k - m]
    BY <2>1 DEF hs, m, n
  <2>3. \A k \in 1..m : k \in 1..(m + n) /\ k <= m
    BY <1>0
  <2>4. \A k \in 1..n : m + k \in 1..(m + n) /\ ~(m + k <= m) /\ (m + k) - m = k
    BY <1>0
  <2>5. \A k \in 1..m : hs[k] = fs[k]
    BY <2>2, <2>3
  <2>6. \A k \in 1..n : hs[m + k] = gs[k]
    BY <2>2, <2>4
  <2> QED BY <2>2, <2>5, <2>6
<1> HIDE DEF hs
<1>f. /\ {fs[k].at : k \in 1..m} = {b \in begins : 0 < b /\ b <= d}
      /\ \A k \in 1..m : fs[k].length = FrameLength(fs[k].at)
      /\ \A j, k \in 1..m : j < k => fs[j].at < fs[k].at
  BY DEF FramesOf
<1>g. /\ {gs[k].at : k \in 1..n} = {b \in begins : d < b /\ b <= e}
      /\ \A k \in 1..n : gs[k].length = FrameLength(gs[k].at)
      /\ \A j, k \in 1..n : j < k => gs[j].at < gs[k].at
  BY DEF FramesOf
<1> HIDE DEF m, n
<1>2. ASSUME NEW k \in 1..(m + n)
      PROVE  \/ k \in 1..m /\ hs[k] = fs[k]
             \/ k - m \in 1..n /\ hs[k] = gs[k - m]
  <2>1. CASE k <= m
    BY <1>0, <1>1, <2>1
  <2>2. CASE ~(k <= m)
    <3>1. k - m \in 1..n /\ m + (k - m) = k
      BY <1>0, <2>2
    <3> QED BY <1>1, <3>1
  <2> QED BY <2>1, <2>2
<1>3. {hs[k].at : k \in 1..(m + n)} = {b \in begins : 0 < b /\ b <= e}
  <2>1. ASSUME NEW k \in 1..(m + n) PROVE hs[k].at \in begins /\ 0 < hs[k].at /\ hs[k].at <= e
    <3>1. hs[k].at \in begins /\ hs[k].at \in Nat /\ hs[k].at <= e
      BY <1>0, <1>2
    <3> QED BY <3>1
  <2>2. ASSUME NEW b \in begins, 0 < b, b <= e PROVE \E k \in 1..(m + n) : b = hs[k].at
    <3>1. CASE b <= d
      <4>1. PICK k \in 1..m : b = fs[k].at
        BY <1>f, <2>2, <3>1
      <4>2. k \in 1..(m + n)
        BY <1>0
      <4> QED BY <1>1, <4>1, <4>2
    <3>2. CASE ~(b <= d)
      <4>1. PICK k \in 1..n : b = gs[k].at
        BY <1>g, <2>2, <3>2
      <4>2. m + k \in 1..(m + n)
        BY <1>0
      <4> QED BY <1>1, <4>1, <4>2
    <3> QED BY <3>1, <3>2
  <2> QED BY <2>1, <2>2
<1>4. \A k \in 1..(m + n) : hs[k].length = FrameLength(hs[k].at)
  BY <1>2, <1>f, <1>g
<1>5. ASSUME NEW j \in 1..(m + n), NEW k \in 1..(m + n), j < k
      PROVE  hs[j].at < hs[k].at
  <2>1. CASE j \in 1..m /\ hs[j] = fs[j] /\ k \in 1..m /\ hs[k] = fs[k]
    BY <1>5, <1>f, <2>1
  <2>2. CASE j \in 1..m /\ hs[j] = fs[j] /\ k - m \in 1..n /\ hs[k] = gs[k - m]
    <3>1. hs[j].at \in Nat /\ hs[j].at <= d /\ hs[k].at \in Nat /\ d < hs[k].at
      BY <1>0, <2>2
    <3> QED BY <3>1
  <2>3. CASE j - m \in 1..n /\ hs[j] = gs[j - m] /\ k - m \in 1..n /\ hs[k] = gs[k - m]
    <3>1. j - m < k - m
      BY <1>0, <1>5
    <3> QED BY <1>g, <2>3, <3>1
  <2>4. CASE j - m \in 1..n /\ k \in 1..m
    BY <1>0, <1>5, <2>4
  <2> QED BY <1>2, <2>1, <2>2, <2>3, <2>4
<1> QED BY <1>1, <1>3, <1>4, <1>5 DEF FramesOf, hs

(* What the loop takes from the larger buffer is added to what it took.    *)
LEMMA PushKeeps ==
    ASSUME AdtsInv, NEW n \in 1..(Len(source) - pushed), Push(n)
    PROVE  AdtsInv'
<1> USE DEF AdtsInv
<1>0. /\ head \in Nat /\ Len(source) \in Nat /\ pushed \in Nat /\ pushed <= Len(source)
      /\ consumed \in Nat /\ consumed <= pushed /\ source \in Seq(Nat)
      /\ \A b \in begins : b \in Nat /\ b >= 1
  BY SourceState DEF AdtsTypeOK
<1>r. PICK r \in Nat : r = pushed + n
  BY <1>0
<1>1. /\ UNCHANGED <<head, source, begins>> /\ pushed' = r
      /\ consumed' = Parsed(r).done /\ found' = found \o Parsed(r).frames
  BY <1>r DEF Push
<1>2. r \in 0..Len(source) /\ consumed \in 0..r /\ pushed <= r
  BY <1>0, <1>r
<1>3. PICK f : /\ \A d \in 0..Len(source) : f[d] = Turn(f, d, r)
               /\ Parsed(r) = f[consumed]
  BY <1>0, <1>2, ParsedIsLoop
<1>4. Parsed(r) \in Result /\ Parsed(r).done \in consumed..r
  BY <1>0, <1>2, <1>3, LoopTypes
<1> DEFINE fs == Parsed(r).frames
           stop == Parsed(r).done
<1>5. found \in Seq(FrameFound) /\ fs \in Seq(FrameFound) /\ stop \in Nat
      /\ consumed <= stop /\ stop <= r
  BY <1>0, <1>2, <1>4 DEF AdtsTypeOK, Result, FrameFound
<1>6. AdtsTypeOK'
  <2>1. found' \in Seq(FrameFound)
    BY <1>1, <1>5
  <2> HIDE DEF stop, fs
  <2>2. stop \in 0..r
    BY <1>5
  <2> QED BY <1>1, <1>2, <2>1, <2>2 DEF AdtsTypeOK, FrameFound, stop
<1>7. SourceInv'
  BY <1>1 DEF SourceInv, FrameLength
<1>8. CutInv'
  <2>1. SUFFICES ASSUME Clean(r)
                 PROVE  Between(stop) /\ FramesOf(found', 0, stop) /\ NoneAfter(stop, r)
    <3>1. Clean(pushed)' => Clean(r)
      BY <1>1 DEF Clean
    <3>2. Between(stop) => Between(consumed)'
      BY <1>1 DEF Between
    <3>3. FramesOf(found', 0, stop) => FramesOf(found, 0, consumed)'
      BY <1>1 DEF FramesOf, FrameLength
    <3>4. NoneAfter(stop, r) => NoneAfter(consumed, pushed)'
      BY <1>1 DEF NoneAfter, FrameLength
    <3> QED BY <3>1, <3>2, <3>3, <3>4 DEF CutInv
  <2>2. Clean(pushed)
    <3>1. \A k \in 1..(pushed - 1) : k \in 1..(r - 1)
      BY <1>0, <1>2
    <3> QED BY <2>1, <3>1 DEF Clean
  <2>3. Between(consumed) /\ FramesOf(found, 0, consumed)
    BY <2>2 DEF CutInv
  <2>4. Between(stop) /\ FramesOf(fs, consumed, stop) /\ NoneAfter(stop, r)
    <3>1. CutsFrom(f, consumed, r)
      BY <1>2, <1>3, <2>1, LoopCuts
    <3> QED BY <1>3, <2>3, <3>1 DEF CutsFrom
  <2>5. begins \subseteq Nat \ {0}
    BY <1>0
  <2> HIDE DEF fs, stop
  <2>6. FramesOf(found \o fs, 0, stop)
    BY <1>0, <1>5, <2>3, <2>4, <2>5, FramesJoin
  <2> QED BY <1>1, <2>4, <2>6 DEF fs
<1> QED BY <1>6, <1>7, <1>8

LEMMA AdtsStepInv == AdtsInv /\ [AdtsNext]_adtsVars => AdtsInv'
<1> SUFFICES ASSUME AdtsInv, [AdtsNext]_adtsVars PROVE AdtsInv'
  OBVIOUS
<1>1. ASSUME NEW p \in AacPayloads, SourceSends(p) PROVE AdtsInv'
  BY <1>1, SourceKeeps
<1>2. ASSUME NEW n \in 1..(Len(source) - pushed), Push(n) PROVE AdtsInv'
  BY <1>2, PushKeeps
<1>3. CASE UNCHANGED adtsVars
  <2> USE <1>3 DEF adtsVars
  <2>1. AdtsTypeOK' /\ SourceInv'
    BY DEF AdtsInv, AdtsTypeOK, SourceInv, FrameLength
  <2>2. CutInv'
    BY DEF AdtsInv, CutInv, Clean, Between, FramesOf, NoneAfter, FrameLength
  <2> QED BY <2>1, <2>2 DEF AdtsInv
<1> QED BY <1>1, <1>2, <1>3 DEF AdtsNext

(* The invariant of the parser: for frames of any size and content, in     *)
(* chunks of any size.                                                     *)
THEOREM AdtsInvariant == AdtsSpec => []AdtsInv
<1> QED BY AdtsInitInv, AdtsStepInv, PTL DEF AdtsSpec

(* FramesWhole: what is handed out are the frames that have arrived.       *)
LEMMA WholeFrames == AdtsInv => FramesWhole
<1> SUFFICES ASSUME AdtsInv, \A i \in FalseSyncs : i > head
             PROVE  /\ HandedOut = Arrived
                    /\ \A k \in DOMAIN found :
                          /\ found[k].length = FrameLength(found[k].at)
                          /\ k > 1 => found[k - 1].at < found[k].at
  BY DEF FramesWhole
<1>0. /\ head \in Nat /\ Len(source) \in Nat /\ pushed \in Nat /\ pushed <= Len(source)
      /\ consumed \in Nat /\ consumed <= pushed
      /\ \A b \in begins : /\ b \in Nat /\ b >= 1 /\ FrameLength(b) \in Nat /\ b > head
                           /\ b + FrameLength(b) <= Len(source) + 1
  BY SourceState DEF AdtsInv
<1>1. Clean(pushed)
  BY DEF Clean, FalseSyncs
<1>2. Between(consumed) /\ FramesOf(found, 0, consumed) /\ NoneAfter(consumed, pushed)
  BY <1>1 DEF AdtsInv, CutInv
<1>3. DOMAIN found = 1..Len(found) /\ Len(found) \in Nat
  BY DEF AdtsInv, AdtsTypeOK
<1>4. HandedOut = {b \in begins : b <= consumed}
  <2>1. {found[k].at : k \in 1..Len(found)} = {b \in begins : 0 < b /\ b <= consumed}
    BY <1>2 DEF FramesOf
  <2>2. HandedOut = {found[k].at : k \in 1..Len(found)}
    BY <1>3 DEF HandedOut
  <2> QED BY <1>0, <2>1, <2>2
<1>5. ASSUME NEW b \in begins PROVE b <= consumed <=> b + FrameLength(b) - 1 <= pushed
  <2>1. CASE b > consumed
    <3>1. b + FrameLength(b) > pushed + 1
      BY <1>2, <2>1 DEF NoneAfter
    <3> QED BY <1>0, <2>1, <3>1
  <2>2. CASE ~(b > consumed)
    <3>1. consumed + 1 \in begins \cup {Len(source) + 1}
      BY <1>0, <1>2, <2>2 DEF Between
    <3>2. consumed + 1 \in begins => b + FrameLength(b) <= consumed + 1
      BY <1>0, <2>2 DEF AdtsInv, SourceInv
    <3>3. b + FrameLength(b) <= consumed + 1
      BY <1>0, <3>1, <3>2
    <3> QED BY <1>0, <2>2, <3>3
  <2> QED BY <1>0, <2>1, <2>2
<1>6. HandedOut = Arrived
  BY <1>4, <1>5 DEF Arrived
<1>7. ASSUME NEW k \in DOMAIN found, k > 1 PROVE found[k - 1].at < found[k].at
  <2>1. k - 1 \in 1..Len(found) /\ k \in 1..Len(found) /\ k - 1 < k
    BY <1>3, <1>7
  <2> QED BY <1>2, <2>1 DEF FramesOf
<1> QED BY <1>2, <1>3, <1>6, <1>7 DEF FramesOf

(* StuckByCut: a stream that begins with a frame never blocks the parser.  *)
LEMMA NeverStuck == AdtsInv => StuckByCut
<1> SUFFICES ASSUME AdtsInv, Stuck, head = 0 PROVE FALSE
  <2>1. AdtsInv => head \in Nat
    BY DEF AdtsInv, AdtsTypeOK
  <2> QED BY <2>1 DEF StuckByCut
<1> DEFINE i == FindSync(consumed, pushed)
<1>0. /\ head \in Nat /\ Len(source) \in Nat /\ pushed \in Nat /\ pushed <= Len(source)
      /\ consumed \in Nat /\ consumed <= pushed
      /\ \A b \in begins : b \in Nat /\ FrameLength(b) \in Nat /\ FrameLength(b) >= 3
  BY SourceState DEF AdtsInv
<1>1. Clean(pushed)
  BY <1>0 DEF Clean
<1>2. Between(consumed)
  BY <1>1 DEF AdtsInv, CutInv
<1>3. Syncs(consumed, pushed) # {} /\ i + 2 <= pushed /\ ~HasHeader(i, pushed)
  BY DEF Stuck
<1>4. i \in begins
  <2>1. pushed \in 0..Len(source) /\ consumed \in 0..pushed
    BY <1>0
  <2> QED BY <1>1, <1>2, <1>3, <2>1, SyncBegins DEF AdtsInv
<1>5. FrameLength(i) >= 3
  BY <1>0, <1>4
<1> HIDE DEF i
<1> QED BY <1>3, <1>5 DEF HasHeader, FrameLength, HeaderLength

(* What is consumed has been pushed, and what is handed out is a list.     *)
THEOREM AdtsTypeCorrect == AdtsSpec => []AdtsTypeOK
  BY AdtsInvariant, PTL DEF AdtsInv

(* A stream that begins with a frame is cut at its frames, whatever is in  *)
(* them, and the parser never stops; nor is it misled by what follows the  *)
(* first frame of a stream that does not.                                  *)
THEOREM FramesAreCutOut == AdtsSpec => []FramesCutOut
<1>1. AdtsInv => FramesCutOut
  BY WholeFrames, NeverStuck DEF FramesCutOut
<1> QED BY <1>1, AdtsInvariant, PTL
=============================================================================
