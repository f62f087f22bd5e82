--------------------------- MODULE TimedMetadata ---------------------------
(***************************************************************************)
(* What a receiver needs of the numbers in a stream: the sizes in an ID3   *)
(* tag (src/src/hls/id3_inject.rs), the length and the time stamp in the   *)
(* header of a PES, and the clock reference in the packets that carry it   *)
(* (build_audio_pes to write_pcr in src/src/hls/muxer.rs).                 *)
(*                                                                         *)
(* A text is its length in bytes; a u64 that goes into bit fields is the   *)
(* set of the positions of its ones, and so is a byte.                     *)
(***************************************************************************)
EXTENDS Integers, Sequences

CONSTANTS
    Base,         \* values of a syncsafe byte (128)
    LengthMod,    \* values of a 16-bit length (65536)
    Header,       \* bytes before a frame's payload, and before the frames (10)
    Description,  \* bytes of "artworkURL_640x" (15)
    TextLengths,  \* lengths of titles, artists and artwork URLs
    AacLengths,   \* lengths of AAC frames
    Stamps        \* pts_counter, as positions of ones

ASSUME TimedAssumption ==
    /\ Base \in Nat \ {0, 1} /\ LengthMod \in Nat \ {0}
    /\ Header \in Nat /\ Description \in Nat
    /\ TextLengths \subseteq Nat /\ AacLengths \subseteq Nat
    /\ \A pts \in Stamps : pts \subseteq 0..63

VARIABLES
    text,   \* the lengths of title, artist and artwork
    id3,    \* id3_bytes: the tag made of them
    pes     \* the last PES written

timedVars == <<text, id3, pes>>

-----------------------------------------------------------------------------
(* The tag.                                                                *)

Base2 == Base * Base
Base3 == Base * Base2
Base4 == Base * Base3

(* Mutant: the low digit is not masked.                                    *)
SyncsafeUnmasked(n) ==
    <<(n \div Base3) % Base, (n \div Base2) % Base, (n \div Base) % Base, n>>

Syncsafe(n) ==
    <<(n \div Base3) % Base, (n \div Base2) % Base, (n \div Base) % Base, n % Base>>

Frame(id, payload) ==
    [id |-> id, size |-> Syncsafe(payload), bytes |-> Header + payload]

(* Mutant: the encoding byte is not counted.                               *)
TextFrameShort(id, len) ==
    IF len = 0 THEN << >>
    ELSE <<[id |-> id, size |-> Syncsafe(len), bytes |-> Header + 1 + len]>>

(* The payload begins with the byte for the encoding.                      *)
TextFrame(id, len) == IF len = 0 THEN << >> ELSE <<Frame(id, 1 + len)>>
UrlFrame(len) ==
    IF len = 0 THEN << >> ELSE <<Frame("WXXX", 1 + Description + 1 + len)>>

(* The bytes of the first i frames.                                        *)
Bytes(frames, i) ==
    LET sum[k \in 0..i] == IF k = 0 THEN 0 ELSE sum[k - 1] + frames[k].bytes
    IN  sum[i]

(* build_id3v2: no frames, no tag.                                         *)
Tag(t) ==
    LET frames == TextFrame("TIT2", t.title) \o TextFrame("TPE1", t.artist)
                      \o UrlFrame(t.artwork)
    IN  [size |-> Syncsafe(Bytes(frames, Len(frames))), frames |-> frames]
TagBytes(tag) == Header + Bytes(tag.frames, Len(tag.frames))

-----------------------------------------------------------------------------
(* The numbers of the stream.  x >> n and x << n.                          *)

Shr(x, n) == {b - n : b \in {c \in x : c >= n}}
Shl(x, n) == {b + n : b \in x}
AsU8(x) == x \cap 0..7

(* Mutant: two bits of the third group.                                    *)
EncodePtsNarrow(pts) ==
    <<{0, 5} \cup (Shr(pts, 29) \cap 1..2), AsU8(Shr(pts, 22)),
      {0} \cup (Shr(pts, 14) \cap 1..7), AsU8(Shr(pts, 7)),
      {0} \cup (Shl(pts, 1) \cap 1..7)>>

(* Three groups of bits, each with a marker bit behind it.                 *)
EncodePts(pts) ==
    <<{0, 5} \cup (Shr(pts, 29) \cap 1..3), AsU8(Shr(pts, 22)),
      {0} \cup (Shr(pts, 14) \cap 1..7), AsU8(Shr(pts, 7)),
      {0} \cup (Shl(pts, 1) \cap 1..7)>>

(* 33 bits, six reserved ones, and an extension of nine that is 0.         *)
WritePcr(pcr) ==
    <<AsU8(Shr(pcr, 25)), AsU8(Shr(pcr, 17)), AsU8(Shr(pcr, 9)), AsU8(Shr(pcr, 1)),
      Shl(pcr \cap {0}, 7) \cup 1..6, {}>>

(* What follows the length field: three bytes, the stamp and the data.     *)
Rest(len) == 3 + 5 + len

(* Mutant: no PES is unbounded.                                            *)
AudioPesBounded(len, pts) ==
    [stream |-> "audio", rest |-> Rest(len), pts |-> EncodePts(pts), stamp |-> pts,
     length |-> Rest(len) % LengthMod]

AudioPes(len, pts) ==
    [stream |-> "audio", rest |-> Rest(len), pts |-> EncodePts(pts), stamp |-> pts,
     length |-> IF Rest(len) < LengthMod THEN Rest(len) ELSE 0]

MetadataPes(tag, pts) ==
    [stream |-> "metadata", rest |-> Rest(TagBytes(tag)), pts |-> EncodePts(pts),
     stamp |-> pts, length |-> Rest(TagBytes(tag)) % LengthMod]

-----------------------------------------------------------------------------

NoText == [title |-> 0, artist |-> 0, artwork |-> 0]

TimedInit ==
    /\ text = NoText /\ id3 = Tag(NoText)
    /\ pes \in {AudioPes(len, {}) : len \in AacLengths}

SetId3 ==
    /\ text' \in [title : TextLengths, artist : TextLengths, artwork : TextLengths]
    /\ id3' = Tag(text') /\ UNCHANGED pes

WriteAudio ==
    /\ \E len \in AacLengths, pts \in Stamps : pes' = AudioPes(len, pts)
    /\ UNCHANGED <<text, id3>>

WriteMetadata ==
    /\ id3.frames # << >>
    /\ \E pts \in Stamps : pes' = MetadataPes(id3, pts)
    /\ UNCHANGED <<text, id3>>

TimedNext == SetId3 \/ WriteAudio \/ WriteMetadata

TimedSpec == TimedInit /\ [][TimedNext]_timedVars

-----------------------------------------------------------------------------
(* Properties, as a receiver reads.                                        *)

(* No byte of a size looks like a sync byte: its high bit is 0.            *)
TimedTypeOK ==
    /\ text \in [title : Nat, artist : Nat, artwork : Nat]
    /\ id3.size \in Seq(0..(Base - 1))
    /\ \A i \in DOMAIN id3.frames : id3.frames[i].size \in Seq(0..(Base - 1))
    /\ pes.length \in 0..(LengthMod - 1)

Number(size) == size[1] * Base3 + size[2] * Base2 + size[3] * Base + size[4]

(* The fields there are, in the order they have.                           *)
Given(t) ==
    {id \in {"TIT2", "TPE1", "WXXX"} : CASE id = "TIT2" -> t.title > 0
                                        [] id = "TPE1" -> t.artist > 0
                                        [] id = "WXXX" -> t.artwork > 0}
Place(id) == CASE id = "TIT2" -> 1 [] id = "TPE1" -> 2 [] id = "WXXX" -> 3

(* Going from frame to frame by their sizes, the receiver comes upon every *)
(* frame where it begins, on the last one's end where the tag's size has   *)
(* it, and on the fields that are there, in a fixed order.                 *)
FramesFound ==
    LET n == Len(id3.frames)
        walk[i \in 0..n] ==
            IF i = 0 THEN 0 ELSE walk[i - 1] + Header + Number(id3.frames[i].size)
    IN  Bytes(id3.frames, n) < Base4 =>
            /\ \A i \in 0..n : walk[i] = Bytes(id3.frames, i)
            /\ Number(id3.size) = walk[n]
            /\ {id3.frames[i].id : i \in 1..n} = Given(text)
            /\ \A i, j \in 1..n : i < j => Place(id3.frames[i].id) < Place(id3.frames[j].id)

(* The length of a PES is what follows it, or an audio PES says that it    *)
(* does not say.  The tag of a metadata PES can be too long for the field, *)
(* which then says something else.                                         *)
LengthTrue ==
    \/ pes.length = pes.rest
    \/ pes.rest >= LengthMod /\ (pes.stream = "audio" => pes.length = 0)

(* The bits of a stamp and of a clock reference, as the standard has them. *)
ReadPts(b) ==
    Shl(b[1] \cap 1..3, 29) \cup Shl(b[2], 22) \cup Shl(b[3] \cap 1..7, 14)
        \cup Shl(b[4], 7) \cup Shr(b[5] \cap 1..7, 1)
ReadPcr(b) ==
    Shl(b[1], 25) \cup Shl(b[2], 17) \cup Shl(b[3], 9) \cup Shl(b[4], 1)
        \cup Shr(b[5] \cap {7}, 7)

(* Stamp and clock reference are the counter's lower 33 bits, so that both *)
(* wrap together, after 26 hours; the marker bits are set.                 *)
StampsTrue ==
    /\ ReadPts(pes.pts) = pes.stamp \cap 0..32
    /\ ReadPcr(WritePcr(pes.stamp)) = ReadPts(pes.pts)
    /\ \A i \in {1, 3, 5} : 0 \in pes.pts[i]
    /\ pes.pts[1] \cap 4..7 = {5}

(* The fields of a PES header say what they should.                        *)
FieldsTrue == LengthTrue /\ StampsTrue
=============================================================================
