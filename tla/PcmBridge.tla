----------------------------- MODULE PcmBridge -----------------------------
(***************************************************************************)
(* The middle of run in src/crates/transcoder/src/native.rs: decoded audio *)
(* is collected in pcm_buf and cut into AAC frames of another size, which  *)
(* get their time stamps from pts_counter.                                 *)
(*                                                                         *)
(* The samples of the decoder are numbered in the order they come out, the *)
(* channels interleaved.  What pcm_buf holds is always the latest of them: *)
(* those from taken to decoded - 1.                                        *)
(***************************************************************************)
EXTENDS Integers, Sequences

CONSTANTS
    Packet,        \* samples of a decoded packet, all channels (1152 * 2)
    Samples,       \* samples per channel of an AAC frame (1024)
    Clock,         \* pts per second (90_000)
    Rate,          \* sample rates of sources
    MaxPcmBuffer,  \* MAX_PCM_BUFFER
    MaxDecoded     \* bound: packets decoded

(* The encoder is stereo.                                                  *)
AacFrameSamples == Samples * 2

ASSUME PcmAssumption ==
    /\ Samples \in Nat \ {0} /\ Clock \in Nat \ {0}
    /\ Rate \subseteq Nat \ {0}
    /\ Packet \subseteq Nat /\ MaxDecoded \in Nat /\ MaxPcmBuffer \in Nat
    /\ \A n \in Packet : n + AacFrameSamples <= MaxPcmBuffer

VARIABLES
    rate,        \* actual_sample_rate, 0 before the first packet
    packets,     \* packets decoded so far
    decoded,     \* samples decoded so far
    taken,       \* samples that have left pcm_buf
    cleared,     \* samples dropped by clearing it
    skipped,     \* chunks the encoder made no frame of
    pts_counter,
    frames       \* frames sent: their first sample, pts, chunks skipped before

pcmVars == <<rate, packets, decoded, taken, cleared, skipped, pts_counter, frames>>

PcmInit ==
    /\ rate = 0 /\ packets = 0 /\ decoded = 0 /\ taken = 0 /\ cleared = 0
    /\ skipped = 0 /\ pts_counter = 0 /\ frames = << >>

-----------------------------------------------------------------------------

Pcm == decoded - taken   \* pcm_buf.len()

(* Mutant: one frame at most is cut off after each packet.                 *)
DecodeBeforeDrained(n, r) ==
    /\ packets < MaxDecoded
    /\ rate' = IF rate = 0 THEN r ELSE rate
    /\ packets' = packets + 1 /\ decoded' = decoded + n
    /\ IF Pcm + n > MaxPcmBuffer
       THEN taken' = decoded /\ cleared' = cleared + Pcm
       ELSE UNCHANGED <<taken, cleared>>
    /\ UNCHANGED <<skipped, pts_counter, frames>>

(* A packet is decoded to n samples, once the loop that drains pcm_buf has *)
(* ended.  The first one creates the encoder for its rate.  Packets that   *)
(* cannot be decoded change nothing.                                       *)
Decode(n, r) ==
    /\ packets < MaxDecoded /\ Pcm < AacFrameSamples
    /\ rate' = IF rate = 0 THEN r ELSE rate
    /\ packets' = packets + 1 /\ decoded' = decoded + n
    /\ IF Pcm + n > MaxPcmBuffer
       THEN taken' = decoded /\ cleared' = cleared + Pcm
       ELSE UNCHANGED <<taken, cleared>>
    /\ UNCHANGED <<skipped, pts_counter, frames>>

(* Mutant: the last chunk need not be full.                                *)
TakeChunkUnfilled ==
    /\ Pcm > 0
    /\ taken' = taken + AacFrameSamples
    /\ UNCHANGED <<rate, packets, decoded, cleared>>

(* One turn of the loop takes a frame's samples off the buffer.            *)
TakeChunk ==
    /\ Pcm >= AacFrameSamples
    /\ taken' = taken + AacFrameSamples
    /\ UNCHANGED <<rate, packets, decoded, cleared>>

(* Mutant: the time of a sample is rounded, not that of a frame.           *)
PtsStepRoundsEarly == Samples * (Clock \div rate)

(* What a frame adds to pts_counter; the division truncates.               *)
PtsStep == (Samples * Clock) \div rate

EncodeFrame ==
    /\ TakeChunk
    /\ frames' = Append(frames, [first |-> taken, pts |-> pts_counter,
                                 skipped |-> skipped])
    /\ pts_counter' = pts_counter + PtsStep
    /\ UNCHANGED skipped

(* Mutant: the counter advances with or without a frame.                   *)
EncodeNothingCounts ==
    /\ TakeChunk
    /\ skipped' = skipped + 1
    /\ pts_counter' = pts_counter + PtsStep
    /\ UNCHANGED frames

(* The encoder fails or has no output yet: the chunk is gone, and the time *)
(* does not pass.                                                          *)
EncodeNothing ==
    /\ TakeChunk
    /\ skipped' = skipped + 1
    /\ UNCHANGED <<pts_counter, frames>>

PcmNext ==
    \/ \E n \in Packet, r \in Rate : Decode(n, r)
    \/ EncodeFrame \/ EncodeNothing

PcmSpec == PcmInit /\ [][PcmNext]_pcmVars

-----------------------------------------------------------------------------
(* Properties.                                                             *)

Frame == [first : Nat, pts : Nat, skipped : Nat]

PcmTypeOK ==
    /\ rate \in Rate \cup {0} /\ packets \in 0..MaxDecoded
    /\ decoded \in Nat /\ taken \in 0..decoded /\ cleared \in Nat
    /\ skipped \in Nat /\ pts_counter \in Nat /\ frames \in Seq(Frame)
    /\ frames # << >> => rate # 0

(* However packets and frames differ in size, the buffer never gets to its *)
(* limit: no decoded sample is dropped.                                    *)
NothingCleared == cleared = 0

(* Every sample is in one frame, in order, or in a chunk that the encoder  *)
(* made nothing of, or still in the buffer ("without it, 128 samples per   *)
(* channel are lost every frame").                                         *)
SamplesConserved ==
    /\ taken = AacFrameSamples * (Len(frames) + skipped)
    /\ \A i \in DOMAIN frames :
          frames[i].first = AacFrameSamples * (i - 1 + frames[i].skipped)

(* No sample is lost but with the encoder's knowledge.                     *)
AudioConserved == NothingCleared /\ SamplesConserved

(* The frames are stamped at equal distances, whatever the encoder skips:  *)
(* this is what Segmenter takes the stream of frames to be.                *)
PtsRegular ==
    /\ \A i \in DOMAIN frames : frames[i].pts = (i - 1) * PtsStep
    /\ frames # << >> => pts_counter = Len(frames) * PtsStep

(* The stamp of a frame is the time its audio starts, two values to a      *)
(* sample and chunks the encoder skipped taken out: never later, and       *)
(* earlier by less than a tick for each frame before it.  A mono source    *)
(* gives one value per sample, and is stamped with half its time.          *)
PtsTracksAudio ==
    \A i \in DOMAIN frames :
        LET heard == (frames[i].first - AacFrameSamples * frames[i].skipped) * Clock
            stamped == frames[i].pts * rate * 2
        IN  /\ stamped <= heard
            /\ heard - stamped <= (i - 1) * rate * 2

(* The stamps are regular, and true to the audio.                          *)
StampsSound == PtsRegular /\ PtsTracksAudio
=============================================================================
