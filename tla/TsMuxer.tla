------------------------------ MODULE TsMuxer ------------------------------
(***************************************************************************)
(* The MPEG-TS packets TsMuxer (src/hls/muxer.rs) writes: tables and an    *)
(* ID3 tag at the head of a segment, then audio, each stream with its      *)
(* continuity counter and its stuffing.  Segmenter says where it cuts.     *)
(*                                                                         *)
(* A PES is its length and its frame's number; its bytes are left out.  A  *)
(* packet records where its bytes go, which the code computes by hand:     *)
(* afl is adaptation_field_length (-1 without the field), start the place  *)
(* of the first payload byte, payload their number, offset the first one's *)
(* place in a PES (or section) of that length.                             *)
(***************************************************************************)
EXTENDS Integers, Sequences, Segmenter

CONSTANTS
    PacketSize,   \* TS_PACKET_SIZE (188)
    CcMod,        \* a continuity counter has four bits (16)
    AudioLengths, \* lengths of the audio PES an AAC frame can give
    TagLengths,   \* lengths of the metadata PES; 0 stands for no ID3 tag
    TableLength,  \* a PAT or PMT section with its pointer byte
    MaxFrames     \* bound: frames of a behaviour

ASSUME TsMuxerAssumption ==
    /\ CcMod \in Nat \ {0} /\ MaxFrames \in Nat
    /\ AudioLengths \subseteq Nat \ {0} /\ TagLengths \subseteq Nat
    /\ TableLength \in Nat \ {0} /\ PacketSize \in Nat
    /\ PacketSize > 4 + TableLength /\ PacketSize > 12

Pid == {"PAT", "PMT", "META", "AUDIO"}

VARIABLES
    mux,       \* started, segment_start_pts and segment_frame_count
    written,   \* current_segment's packets and the four counters
    muxed,     \* frames pushed so far
    completed, \* the segments handed over, oldest first
    ended      \* flush() was called; the muxer is dropped after it

vars == <<mux, written, muxed, completed, ended>>

Init ==
    /\ mux = NewMuxer
    /\ written = [packets |-> << >>, cc |-> [p \in Pid |-> 0]]
    /\ muxed = 0 /\ completed = << >> /\ ended = FALSE

-----------------------------------------------------------------------------
(* Packets.                                                                *)

(* Mutant: the stuffing counts the length byte as well.                    *)
PesPacketStuffsLengthByte(pid, len, off, c, pcr, f) ==
    LET withPcr == off = 0 /\ pcr
        header == IF withPcr THEN 12 ELSE 4
        space == PacketSize - header
        payload == IF len - off < space THEN len - off ELSE space
        stuffing == space - payload
    IN  [pid |-> pid, cc |-> c, pusi |-> off = 0, pcr |-> withPcr, frame |-> f,
         afl |-> IF withPcr THEN 7 + stuffing ELSE stuffing,
         start |-> header + stuffing, payload |-> payload,
         offset |-> off, of |-> len, tag |-> FALSE]

(* One turn of write_pes_to_ts's loop, at byte off of a PES of len bytes.  *)
(* Room that the payload leaves becomes an adaptation field, or makes the  *)
(* one with the PCR longer.                                                *)
PesPacket(pid, len, off, c, pcr, f) ==
    LET withPcr == off = 0 /\ pcr
        header == IF withPcr THEN 12 ELSE 4
        space == PacketSize - header
        payload == IF len - off < space THEN len - off ELSE space
        stuffing == space - payload
    IN  [pid |-> pid, cc |-> c, pusi |-> off = 0, pcr |-> withPcr, frame |-> f,
         afl |-> IF withPcr THEN 7 + stuffing ELSE stuffing - 1,
         start |-> header + stuffing, payload |-> payload,
         offset |-> off, of |-> len, tag |-> FALSE]

(* Mutant: the counter is not masked to its width.                         *)
PutUnmasked(w, p) ==
    [packets |-> Append(w.packets, p), cc |-> [w.cc EXCEPT ![p.pid] = @ + 1]]

(* Append a packet to w, which is like written, and count it.              *)
Put(w, p) ==
    [packets |-> Append(w.packets, p), cc |-> [w.cc EXCEPT ![p.pid] = (@ + 1) % CcMod]]

(* Mutant: the loop advances by a plain packet's room, PCR or not.         *)
PesTurnSkips(s, pid, len, pcr, f) ==
    IF s.off >= len THEN s
    ELSE [off |-> s.off + PacketSize - 4,
          w |-> Put(s.w, PesPacket(pid, len, s.off, s.w.cc[pid], pcr, f))]

(* A turn of the loop, on the offset and what is written.                  *)
PesTurn(s, pid, len, pcr, f) ==
    IF s.off >= len THEN s
    ELSE LET p == PesPacket(pid, len, s.off, s.w.cc[pid], pcr, f)
         IN  [off |-> s.off + p.payload, w |-> Put(s.w, p)]

(* write_pes_to_ts.  A turn takes a byte at least: there are at most len.  *)
WritePes(w, pid, len, pcr, f) ==
    LET turn[k \in 0..len] == IF k = 0 THEN [off |-> 0, w |-> w]
                              ELSE PesTurn(turn[k - 1], pid, len, pcr, f)
    IN  turn[len].w

(* write_pat, write_pmt: the stuffing comes before the pointer byte.  tag: *)
(* the table declares the metadata stream.                                 *)
WriteTable(w, pid, tag, f) ==
    LET stuffing == PacketSize - 4 - TableLength
    IN  Put(w, [pid |-> pid, cc |-> w.cc[pid], pusi |-> TRUE, pcr |-> FALSE,
                frame |-> f, afl |-> stuffing - 1, start |-> 4 + stuffing,
                payload |-> TableLength, offset |-> 0, of |-> TableLength,
                tag |-> tag])

-----------------------------------------------------------------------------
(* Operations of the muxer.                                                *)

(* Mutant: the tables are written at the head of the stream only.          *)
WriteHeadOnce(w, tagLen, f) ==
    LET empty == [w EXCEPT !.packets = << >>]
        tables == IF f > 0 THEN empty
                  ELSE WriteTable(WriteTable(empty, "PAT", FALSE, f),
                                  "PMT", tagLen > 0, f)
    IN  IF tagLen = 0 THEN tables
        ELSE [WritePes(tables, "META", tagLen, FALSE, f)
                  EXCEPT !.cc["META"] = w.cc["META"]]

(* Mutant: a new segment starts all counters again.                        *)
WriteHeadResets(w, tagLen, f) ==
    LET empty == [packets |-> << >>, cc |-> [p \in Pid |-> 0]]
        tables == WriteTable(WriteTable(empty, "PAT", FALSE, f),
                             "PMT", tagLen > 0, f)
    IN  IF tagLen = 0 THEN tables
        ELSE [WritePes(tables, "META", tagLen, FALSE, f)
                  EXCEPT !.cc["META"] = w.cc["META"]]

(* begin_segment.  write_metadata_pes reads meta_cc before its PES and     *)
(* writes it back after it, over what write_pes_to_ts has counted.         *)
WriteHead(w, tagLen, f) ==
    LET tables == WriteTable(WriteTable([w EXCEPT !.packets = << >>],
                                        "PAT", FALSE, f),
                             "PMT", tagLen > 0, f)
    IN  IF tagLen = 0 THEN tables
        ELSE [WritePes(tables, "META", tagLen, FALSE, f)
                  EXCEPT !.cc["META"] = w.cc["META"]]

(* finish_segment.                                                         *)
Finished == [first |-> mux.first, frames |-> mux.count, packets |-> written.packets]

(* Mutant: the frame that opens a segment is counted in the one before.    *)
MuxFrameCountsAhead(len, tagLen) ==
    LET f == muxed
        cuts == Cuts(mux, f)
        opens == cuts \/ ~mux.started
        w == IF opens THEN WriteHead(written, tagLen, f) ELSE written
    IN  /\ ~ended /\ f < MaxFrames
        /\ written' = WritePes(w, "AUDIO", len, opens, f)
        /\ mux' = PushFrame(mux, f)
        /\ completed' = IF cuts THEN Append(completed,
                                       [Finished EXCEPT !.frames = @ + 1])
                        ELSE completed
        /\ muxed' = f + 1
        /\ UNCHANGED ended

(* The mux task's set_id3 and push_frame of one frame.  The tag is looked  *)
(* at only where a segment begins.  The first frame of a segment, and no   *)
(* other, carries the PCR.                                                 *)
MuxFrame(len, tagLen) ==
    LET f == muxed
        cuts == Cuts(mux, f)
        opens == cuts \/ ~mux.started
        w == IF opens THEN WriteHead(written, tagLen, f) ELSE written
    IN  /\ ~ended /\ f < MaxFrames
        /\ written' = WritePes(w, "AUDIO", len, opens, f)
        /\ mux' = PushFrame(mux, f)
        /\ completed' = IF cuts THEN Append(completed, Finished) ELSE completed
        /\ muxed' = f + 1
        /\ UNCHANGED ended

(* flush: finish_segment takes the packets away.                           *)
FlushOut ==
    /\ ~ended
    /\ IF Flushes(mux)
       THEN /\ completed' = Append(completed, Finished)
            /\ written' = [written EXCEPT !.packets = << >>]
       ELSE UNCHANGED <<completed, written>>
    /\ ended' = TRUE
    /\ UNCHANGED <<mux, muxed>>

Next ==
    \/ \E len \in AudioLengths, tagLen \in TagLengths : MuxFrame(len, tagLen)
    \/ FlushOut

Spec == Init /\ [][Next]_vars

-----------------------------------------------------------------------------
(* Invariants.                                                             *)

TsPacket == [pid : Pid, cc : 0..(CcMod - 1), pusi : BOOLEAN, pcr : BOOLEAN,
             frame : Nat, afl : -1..PacketSize, start : 0..PacketSize,
             payload : 0..PacketSize, offset : Nat, of : Nat, tag : BOOLEAN]

TypeOK ==
    /\ mux \in MuxState
    /\ written.packets \in Seq(TsPacket) /\ written.cc \in [Pid -> 0..(CcMod - 1)]
    /\ muxed \in 0..MaxFrames /\ ended \in BOOLEAN
    /\ \A i \in DOMAIN completed :
          /\ completed[i].first \in Nat /\ completed[i].frames \in Nat
          /\ completed[i].packets \in Seq(TsPacket)

(* The packets of all segments so far, the one being written included.     *)
SegmentsSoFar == Len(completed) + (IF written.packets = << >> THEN 0 ELSE 1)
Seg(n) == IF n <= Len(completed) THEN completed[n].packets ELSE written.packets
Segments == {Seg(n) : n \in 1..SegmentsSoFar}

(* Every packet is exactly full: the adaptation field, with room for the   *)
(* PCR where there is one, ends where the payload starts, and the payload  *)
(* ends with the packet.                                                   *)
PacketsFit(seg) ==
    \A i \in DOMAIN seg :
        LET p == seg[i] IN
        /\ p.payload > 0 /\ p.start + p.payload = PacketSize
        /\ p.start = IF p.afl = -1 THEN 4 ELSE 5 + p.afl
        /\ p.pcr => p.afl >= 7

(* A PES lies in one segment, in packets that follow each other, from its  *)
(* first byte, marked by payload_unit_start, to its last, none twice: a    *)
(* player can start with any segment ("self-contained").                   *)
PesWhole(seg) ==
    \A i \in DOMAIN seg :
        LET p == seg[i]
            last == p.offset + p.payload = p.of
        IN  /\ p.pusi <=> p.offset = 0
            /\ p.offset > 0 =>
                  /\ i > 1 /\ seg[i - 1].pid = p.pid
                  /\ seg[i - 1].offset + seg[i - 1].payload = p.offset
            /\ ~last => i < Len(seg) /\ seg[i + 1].offset > 0

(* Each segment has the layout of the README: PAT, PMT, the metadata PES   *)
(* if and only if the PMT declares it, then audio, with the PCR on the     *)
(* first audio packet only, and both stamped with the first frame's pts.   *)
Layout(seg) ==
    \E head \in 2..(Len(seg) - 1) :
        /\ seg[1].pid = "PAT" /\ seg[2].pid = "PMT" /\ (seg[2].tag <=> head > 2)
        /\ \A i \in 3..Len(seg) : seg[i].pid = IF i <= head THEN "META" ELSE "AUDIO"
        /\ \A i \in DOMAIN seg : seg[i].pcr <=> i = head + 1
        /\ \A i \in 3..head : seg[i].frame = seg[head + 1].frame

(* The duration a playlist gives a segment counts the frames that are in   *)
(* it, which are those from its start on in order.                         *)
DurationTrue(seg, first, frames) ==
    LET starts == {i \in DOMAIN seg : seg[i].pid = "AUDIO" /\ seg[i].pusi}
    IN  /\ {seg[i].frame : i \in starts} = first..(first + frames - 1)
        /\ \A i, j \in starts : i < j => seg[i].frame < seg[j].frame

(* A segment is laid out as it should be and lasts as long as it says.     *)
SegmentsSound ==
    /\ \A seg \in Segments : Layout(seg)
    /\ \A n \in DOMAIN completed :
          DurationTrue(completed[n].packets, completed[n].first, completed[n].frames)

(* Packet i of segment m comes before packet j of segment n.               *)
Earlier(m, i, n, j) == m < n \/ (m = n /\ i < j)

(* The next packet of a stream, in the same segment or a later one.        *)
Follows(n, j, m, i) ==
    LET pid == Seg(m)[i].pid IN
    /\ Earlier(m, i, n, j) /\ Seg(n)[j].pid = pid
    /\ \A o \in m..n : \A k \in DOMAIN Seg(o) :
          Seg(o)[k].pid = pid => ~(Earlier(m, i, o, k) /\ Earlier(o, k, n, j))

(* Played one after the other, the segments make one transport stream: no  *)
(* counter jumps where they join, so that a receiver sees no lost packet.  *)
(* Metadata is the exception: it counts within a segment only and starts   *)
(* at 0 in each, because write_metadata_pes puts the old counter back.     *)
Continuous ==
    \A m \in 1..SegmentsSoFar : \A i \in DOMAIN Seg(m) :
        LET p == Seg(m)[i] IN
        IF p.pid = "META"
        THEN p.cc = IF p.pusi THEN 0 ELSE (Seg(m)[i - 1].cc + 1) % CcMod
        ELSE \A n \in m..SegmentsSoFar : \A j \in DOMAIN Seg(n) :
                Follows(n, j, m, i) => Seg(n)[j].cc = (p.cc + 1) % CcMod

(* Packets that a receiver can put together, within and across segments.   *)
PacketsSound ==
    /\ \A seg \in Segments : PacketsFit(seg) /\ PesWhole(seg)
    /\ Continuous
=============================================================================
