---------------------------- MODULE PesAssembler ----------------------------
(***************************************************************************)
(* PesAssembler (src/crates/transcoder/src/native.rs): the payloads of the *)
(* audio PID's packets are put together to PES packets and the audio in    *)
(* them is handed to the decoder.  The device sends one PES after another; *)
(* any packet can get lost on air, which nobody notices, because the       *)
(* continuity counter is not looked at.                                    *)
(*                                                                         *)
(* A byte is <<p, k>>, the k-th byte of the p-th PES sent.  Packets without *)
(* payload change nothing and are left out.                                *)
(***************************************************************************)
EXTENDS Integers, Sequences

CONSTANTS
    PesSize,      \* lengths of the PES sent, header included
    Payload,      \* bytes of payload a packet can have (1 to 184)
    StartSize,    \* prefix, stream id and pes_length (6)
    FixedSize,    \* the header up to the length of its optional part (9)
    HeaderSize,   \* the whole header, which ends before the audio
    MaxHeader,    \* the longest header the length byte can announce (264)
    MaxPesSize,   \* MAX_PES_SIZE
    MaxSent       \* bound: PES sent

ASSUME PesAssumption ==
    /\ Payload \subseteq Nat \ {0} /\ MaxHeader \in Nat /\ MaxSent \in Nat
    /\ StartSize \in Nat \ {0} /\ FixedSize \in Nat /\ HeaderSize \in Nat
    /\ StartSize <= FixedSize /\ FixedSize <= HeaderSize
    /\ HeaderSize <= MaxHeader
    /\ PesSize \subseteq Nat /\ \A len \in PesSize : len > HeaderSize
    /\ MaxPesSize \in Nat /\ \A n \in Payload : n <= MaxPesSize

VARIABLES
    sent,         \* the PES sent: size, does it say its length, bytes in its
                  \* first packet
    at,           \* bytes of the last one that have left
    lost,         \* first bytes of the packets that did not arrive
    buf,
    collecting,
    expected_len, \* 0 when the PES does not say
    out           \* the results of push, oldest first

device == <<sent, at, lost>>
assembler == <<buf, collecting, expected_len, out>>
pesVars == <<device, assembler>>

Pes == [size : Nat, says : BOOLEAN, first : Nat]
Byte == (Nat \ {0}) \X (Nat \ {0})

PesInit ==
    /\ sent = << >> /\ at = 0 /\ lost = {}
    /\ buf = << >> /\ collecting = FALSE /\ expected_len = 0 /\ out = << >>

-----------------------------------------------------------------------------
(* The assembler.                                                          *)

(* Bytes from + 1 to from + n of PES p.                                    *)
Bytes(p, from, n) == [k \in 1..n |-> <<p, from + k>>]

(* Where extract_audio_data takes the audio to start: behind the header if *)
(* its length byte is where it should be, anywhere if a loss has moved     *)
(* another byte there.                                                     *)
DataStarts(b) ==
    IF Len(b) < FixedSize THEN {Len(b)}
    ELSE IF b[FixedSize] = <<b[1][1], FixedSize>> THEN {HeaderSize}
    ELSE FixedSize..MaxHeader

(* extract_audio_data: nothing when the start is behind the end.           *)
AudioData(b) == {SubSeq(b, start + 1, Len(b)) : start \in DataStarts(b)}

(* push hands on what is in b.                                             *)
HandOn(b) == \E data \in AudioData(b) : out' = Append(out, data)

(* Mutant: a new PES is appended to what the buffer holds.                 *)
PushStartKeeps(payload, len) ==
    /\ IF collecting /\ buf # << >> THEN HandOn(buf) ELSE out' = out
    /\ IF Len(payload) >= StartSize
       THEN buf' = buf \o payload /\ collecting' = TRUE /\ expected_len' = len
       ELSE buf' = << >> /\ collecting' = FALSE /\ UNCHANGED expected_len

(* Mutant: a PES that is not complete by its length is dropped at the next. *)
PushStartDrops(payload, len) ==
    /\ IF collecting /\ Len(buf) >= expected_len /\ expected_len > 0
       THEN HandOn(buf) ELSE out' = out
    /\ IF Len(payload) >= StartSize
       THEN buf' = payload /\ collecting' = TRUE /\ expected_len' = len
       ELSE buf' = << >> /\ collecting' = FALSE /\ UNCHANGED expected_len

(* push with payload_unit_start: what was collected is done, whatever its  *)
(* length; a start that does not fit into its packet is given up.          *)
PushStart(payload, len) ==
    /\ IF collecting /\ buf # << >> THEN HandOn(buf) ELSE out' = out
    /\ IF Len(payload) >= StartSize
       THEN buf' = payload /\ collecting' = TRUE /\ expected_len' = len
       ELSE buf' = << >> /\ collecting' = FALSE /\ UNCHANGED expected_len

(* Mutant: no limit.                                                       *)
PushMoreUnlimited(payload) ==
    LET b == buf \o payload
        complete == expected_len > 0 /\ Len(b) >= expected_len
    IN  IF ~collecting THEN UNCHANGED assembler
        ELSE /\ buf' = b /\ collecting' = ~complete
             /\ IF complete THEN HandOn(b) ELSE out' = out
             /\ UNCHANGED expected_len

(* Mutant: collecting goes on after the PES is complete.                   *)
PushMoreGoesOn(payload) ==
    LET b == buf \o payload
        tooLong == Len(b) > MaxPesSize
        complete == ~tooLong /\ expected_len > 0 /\ Len(b) >= expected_len
    IN  IF ~collecting THEN UNCHANGED assembler
        ELSE /\ buf' = IF tooLong THEN << >> ELSE b
             /\ collecting' = ~tooLong
             /\ IF complete THEN HandOn(b) ELSE out' = out
             /\ UNCHANGED expected_len

(* push without payload_unit_start.  The buffer keeps a completed PES, but *)
(* is no longer collecting.                                                *)
PushMore(payload) ==
    LET b == buf \o payload
        tooLong == Len(b) > MaxPesSize
        complete == ~tooLong /\ expected_len > 0 /\ Len(b) >= expected_len
    IN  IF ~collecting THEN UNCHANGED assembler
        ELSE /\ buf' = IF tooLong THEN << >> ELSE b
             /\ collecting' = (~tooLong /\ ~complete)
             /\ IF complete THEN HandOn(b) ELSE out' = out
             /\ UNCHANGED expected_len

-----------------------------------------------------------------------------
(* The device, and what is lost on the way.                                *)

Last == Len(sent)
Complete == at = (IF sent = << >> THEN 0 ELSE sent[Last].size)

(* pes_length has 16 bits: a PES that says its length is below the limit.  *)
StartPes(size, says, n) ==
    /\ Complete /\ Last < MaxSent /\ n <= size
    /\ says => size <= MaxPesSize
    /\ sent' = Append(sent, [size |-> size, says |-> says, first |-> n])
    /\ at' = n

StartArrives(size, says, n) ==
    /\ StartPes(size, says, n)
    /\ PushStart(Bytes(Last + 1, 0, n), IF says THEN size ELSE 0)
    /\ UNCHANGED lost

StartLost(size, says, n) ==
    /\ StartPes(size, says, n)
    /\ lost' = lost \cup {<<Last + 1, 1>>}
    /\ UNCHANGED assembler

ContinuePes(n) ==
    /\ ~Complete /\ n <= sent[Last].size - at
    /\ at' = at + n
    /\ UNCHANGED sent

MoreArrives(n) ==
    /\ ContinuePes(n)
    /\ PushMore(Bytes(Last, at, n))
    /\ UNCHANGED lost

MoreLost(n) ==
    /\ ContinuePes(n)
    /\ lost' = lost \cup {<<Last, at + 1>>}
    /\ UNCHANGED assembler

PesNext ==
    \E n \in Payload :
        \/ \E size \in PesSize, says \in BOOLEAN :
              StartArrives(size, says, n) \/ StartLost(size, says, n)
        \/ MoreArrives(n) \/ MoreLost(n)

PesSpec == PesInit /\ [][PesNext]_pesVars

-----------------------------------------------------------------------------
(* Properties.                                                             *)

(* The buffer never exceeds MAX_PES_SIZE, however long a PES that does not *)
(* say its length goes on, or however many starts are lost.                *)
PesTypeOK ==
    /\ sent \in Seq(Pes) /\ at \in Nat /\ lost \subseteq Byte
    /\ buf \in Seq(Byte) /\ Len(buf) <= MaxPesSize
    /\ collecting \in BOOLEAN /\ expected_len \in Nat
    /\ out \in Seq(Seq(Byte))

Before(a, b) == a[1] < b[1] \/ (a[1] = b[1] /\ a[2] < b[2])
Ascending(s) == \A i, j \in DOMAIN s : i < j => Before(s[i], s[j])

(* Whatever is lost, no byte is decoded twice or after a later one.        *)
InOrder ==
    /\ \A i \in DOMAIN out : Ascending(out[i])
    /\ \A i, j \in DOMAIN out : i < j =>
          \A a \in DOMAIN out[i], b \in DOMAIN out[j] :
              Before(out[i][a], out[j][b])

(* Audio of two PES is handed on in one piece only if the start of the     *)
(* later one was lost.                                                     *)
MixedOnlyIfStartLost ==
    \A i \in DOMAIN out : \A a, b \in DOMAIN out[i] :
        out[i][a][1] < out[i][b][1] => <<out[i][b][1], 1>> \in lost

(* PES p arrived completely, with a start that fits into its first packet. *)
Intact(p) ==
    /\ \A x \in lost : x[1] # p
    /\ p < Last \/ Complete
    /\ sent[p].first >= StartSize /\ sent[p].size <= MaxPesSize

(* The assembler has seen where p ends: by its length, which is looked at  *)
(* from the second packet on, or by the start of the next.                 *)
EndSeen(p) ==
    \/ sent[p].says /\ sent[p].first < sent[p].size
    \/ p < Last /\ <<p + 1, 1>> \notin lost

(* A loss damages no PES but the one it is in and, if it takes a start     *)
(* away, the one before: every other is decoded whole.                     *)
DamageIsLocal ==
    \A p \in DOMAIN sent : Intact(p) /\ EndSeen(p) =>
        \E i \in DOMAIN out :
            out[i] = Bytes(p, HeaderSize, sent[p].size - HeaderSize)

(* What a lossy stream does to the audio, and no more.                     *)
DamageContained == InOrder /\ MixedOnlyIfStartLost /\ DamageIsLocal
=============================================================================
