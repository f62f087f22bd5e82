------------------------------ MODULE TsDemux ------------------------------
(***************************************************************************)
(* The front of run in src/crates/transcoder/src/native.rs: the bytes of   *)
(* the device, which arrive in chunks of any size and may begin in the     *)
(* middle of a packet, are cut into transport packets; the audio is found  *)
(* through PAT and PMT, and its packets are handed to the PES assembler.   *)
(*                                                                         *)
(* A packet is a sync byte, its pid, and a payload that begins with the    *)
(* table, if it carries one; a symbol stands for the bytes of each.  What  *)
(* ts_buf holds is always a stretch of the device's stream: the symbols    *)
(* from done + 1 to read.                                                  *)
(***************************************************************************)
EXTENDS Integers, Sequences

CONSTANTS
    Payloads,    \* payloads of audio packets: sequences of symbols
    MaxPackets   \* bound: packets the device sends after the cut one

Sync == 71
None == -1
PatPid == 0
PmtPid == 1
AudioPids == {2, 3}
OtherPid == 4
Filler == 99

(* Tables as they stand in a payload: the pid of the first program, the    *)
(* pid of the first MPEG audio stream or the lack of one.                  *)
Pat(pid) == 10 + pid
Pmt(pid) == 20 + pid

(* Pids the two tables can name in this model.                             *)
Pids == {PatPid, PmtPid, OtherPid} \cup AudioPids

TsSize == 5
PayloadSize == TsSize - 2

ASSUME DemuxAssumption ==
    /\ MaxPackets \in Nat
    /\ \A p \in Payloads : p \in Seq(Int) /\ Len(p) = PayloadSize

VARIABLES
    cut,        \* symbols of the packet the stream begins in the middle of
    stream,     \* what the device has sent
    audio,      \* the pid the device's audio is on
    read, done, \* the ends of ts_buf in the stream
    pmt_pid, audio_pid,
    since,      \* where audio_pid became known
    parsed       \* packets cut out of ts_buf: where, and whether handed on

demuxVars == <<cut, stream, audio, read, done, pmt_pid, audio_pid, since, parsed>>
signal == <<cut, stream, audio, read>>
tables == <<pmt_pid, audio_pid, since>>

Buffered == read - done   \* ts_buf.len()

-----------------------------------------------------------------------------
(* The device.                                                             *)

TablePacket(pid, table) == <<Sync, pid, table, Filler, Filler>>
AudioPacket(pid, p) == <<Sync, pid>> \o p

Packets(a) ==
    {TablePacket(PatPid, Pat(PmtPid)), TablePacket(PmtPid, Pmt(a)),
     TablePacket(PmtPid, Pmt(None))}
    \cup {AudioPacket(a, p) : p \in Payloads}

DemuxInit ==
    /\ audio = 2
    /\ \/ cut = 0 /\ stream = << >>
       \/ \E p \in Packets(audio) :
             /\ cut \in 1..(TsSize - 1)
             /\ stream = SubSeq(p, TsSize - cut + 1, TsSize)
    /\ read = 0 /\ done = 0
    /\ pmt_pid = None /\ audio_pid = None /\ since = 0 /\ parsed = << >>

(* The device is at most two packets ahead of the reader, and does what it *)
(* does while a chunk is awaited: when it sent what has not been read      *)
(* makes no difference.                                                    *)
DeviceSends ==
    /\ Buffered < TsSize
    /\ Len(stream) - cut < MaxPackets * TsSize /\ Len(stream) - read <= TsSize
    /\ \E p \in Packets(audio) : stream' = stream \o p
    /\ UNCHANGED <<cut, audio, read, done, parsed>> /\ UNCHANGED tables

(* The station moves its audio to another pid.                             *)
DeviceMoves ==
    /\ Buffered < TsSize
    /\ audio' \in AudioPids \ {audio}
    /\ UNCHANGED <<cut, stream, read, done, parsed>> /\ UNCHANGED tables

-----------------------------------------------------------------------------
(* The transcoder.                                                         *)

(* Mutant: a chunk replaces what is left in the buffer.                    *)
ReadChunkReplaces(n) ==
    /\ Buffered < TsSize
    /\ read' = read + n
    /\ done' = read
    /\ UNCHANGED <<cut, stream, audio, parsed>> /\ UNCHANGED tables

(* The next chunk is awaited once less than a packet is left.              *)
ReadChunk(n) ==
    /\ Buffered < TsSize
    /\ read' = read + n
    /\ UNCHANGED <<cut, stream, audio, done, parsed>> /\ UNCHANGED tables

SyncsAhead == {i \in (done + 1)..read : stream[i] = Sync}

(* Mutant: a buffer that does not begin with a packet is thrown away.      *)
ResyncClears ==
    /\ Buffered >= TsSize /\ stream[done + 1] # Sync
    /\ done' = read
    /\ UNCHANGED signal /\ UNCHANGED tables /\ UNCHANGED parsed

(* On to the next sync byte, or past all that is buffered.                 *)
Resync ==
    /\ Buffered >= TsSize /\ stream[done + 1] # Sync
    /\ IF SyncsAhead = {}
       THEN done' = read
       ELSE \E i \in SyncsAhead : /\ \A j \in SyncsAhead : i <= j
                                  /\ done' = i - 1
    /\ UNCHANGED signal /\ UNCHANGED tables /\ UNCHANGED parsed

(* What the packet at i says when read as a PAT or as a PMT.               *)
PmtPidFromPat(i) ==
    IF \E p \in Pids : stream[i + 2] = Pat(p)
    THEN stream[i + 2] - 10 ELSE None
AudioPidFromPmt(i) ==
    IF \E p \in Pids : stream[i + 2] = Pmt(p)
    THEN stream[i + 2] - 20 ELSE None

(* Mutant: the PMT is looked for in every packet.                          *)
LearnAnyPmt(i) ==
    LET pid == stream[i + 1]
    IN  /\ pmt_pid' = IF pmt_pid = None /\ pid = PatPid THEN PmtPidFromPat(i) ELSE pmt_pid
        /\ audio_pid' = IF audio_pid = None THEN AudioPidFromPmt(i) ELSE audio_pid
        /\ since' = IF audio_pid = None THEN i ELSE since

(* Mutant: every PMT is believed.                                          *)
LearnEveryPmt(i) ==
    LET pid == stream[i + 1]
    IN  /\ pmt_pid' = IF pmt_pid = None /\ pid = PatPid THEN PmtPidFromPat(i) ELSE pmt_pid
        /\ audio_pid' = IF pid = pmt_pid' THEN AudioPidFromPmt(i) ELSE audio_pid
        /\ since' = IF audio_pid = None THEN i ELSE since

(* The first PAT and the first PMT that names audio are believed for ever. *)
Learn(i) ==
    LET pid == stream[i + 1]
    IN  /\ pmt_pid' = IF pmt_pid = None /\ pid = PatPid THEN PmtPidFromPat(i) ELSE pmt_pid
        /\ audio_pid' = IF audio_pid = None /\ pid = pmt_pid' THEN AudioPidFromPmt(i)
                        ELSE audio_pid
        /\ since' = IF audio_pid = None THEN i ELSE since

(* Mutant: the last byte of a packet is not waited for.                    *)
TakePacketEarly ==
    /\ Buffered >= TsSize - 1 /\ stream[done + 1] = Sync
    /\ done' = done + TsSize
    /\ Learn(done + 1)
    /\ parsed' = Append(parsed, [at |-> done + 1, kept |-> stream[done + 2] = audio_pid'])
    /\ UNCHANGED signal

TakePacket ==
    /\ Buffered >= TsSize /\ stream[done + 1] = Sync
    /\ done' = done + TsSize
    /\ Learn(done + 1)
    /\ parsed' = Append(parsed, [at |-> done + 1, kept |-> stream[done + 2] = audio_pid'])
    /\ UNCHANGED signal

DemuxNext ==
    \/ DeviceSends \/ DeviceMoves
    \/ \E n \in 1..(Len(stream) - read) : ReadChunk(n)
    \/ Resync \/ TakePacket

DemuxSpec == DemuxInit /\ [][DemuxNext]_demuxVars

-----------------------------------------------------------------------------
(* Properties.                                                             *)

DemuxTypeOK ==
    /\ cut \in 0..(TsSize - 1) /\ stream \in Seq(Int) /\ audio \in AudioPids
    /\ read \in 0..Len(stream) /\ done \in 0..read
    /\ pmt_pid \in Pids \cup {None} /\ audio_pid \in Pids \cup {None}
    /\ since \in 0..done
    /\ parsed \in Seq([at : Nat, kept : BOOLEAN])

(* Where the device's packets begin.                                       *)
Begins(i) == i > cut /\ (i - cut) % TsSize = 1

(* Packets of the device that have gone through the buffer as a whole.     *)
Passed == {i \in (cut + 1)..(done - TsSize + 1) : Begins(i)}

TakenAt == {parsed[k].at : k \in DOMAIN parsed}
KeptAt == {parsed[k].at : k \in {j \in DOMAIN parsed : parsed[j].kept}}

(* No packet was cut at a sync byte that is part of a payload.             *)
NeverFooled == \A i \in TakenAt : Begins(i)

(* Unless a payload fools it, the reader loses no packet but the one that  *)
(* the stream begins in the middle of.                                     *)
OnlyCutPacketLost == NeverFooled => Passed \subseteq TakenAt

(* A sync byte in the payload is what it takes to be fooled, and a stream  *)
(* that begins with a packet never is.                                     *)
FooledByPayload ==
    ~NeverFooled => /\ cut > 0
                    /\ \E i \in 1..Len(stream) : stream[i] = Sync /\ ~Begins(i)

(* Packets are lost to the cut one and to payloads only.                   *)
PacketsFound == OnlyCutPacketLost /\ FooledByPayload

(* Every packet of the announced audio from the PMT on is handed on, in    *)
(* order and once, and nothing else is.                                    *)
AudioComplete ==
    NeverFooled =>
        /\ KeptAt = {i \in Passed : audio_pid # None /\ i >= since /\ stream[i + 1] = audio_pid}
        /\ \A j, k \in DOMAIN parsed : j < k => parsed[j].at + TsSize <= parsed[k].at

(* The pid used is one that the program's PMT announced, after a PAT, on   *)
(* the pid that this PAT announced.                                        *)
PidAnnounced ==
    NeverFooled /\ audio_pid # None =>
        \E i, j \in Passed : /\ i < j /\ stream[i + 1] = PatPid /\ stream[i + 2] = Pat(pmt_pid)
                             /\ stream[j + 1] = pmt_pid /\ stream[j + 2] = Pmt(audio_pid)

(* The announced audio, all of it and nothing else.                        *)
AudioFound == AudioComplete /\ PidAnnounced
=============================================================================
