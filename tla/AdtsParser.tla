----------------------------- MODULE AdtsParser -----------------------------
(***************************************************************************)
(* AdtsStreamParser (src/crates/transcoder/src/adts.rs): the bytes of an   *)
(* ADTS stream, which arrive in chunks of any size, are cut into AAC       *)
(* frames by searching for a sync word and believing the length after it.  *)
(*                                                                         *)
(* A frame is the two sync bytes, a symbol for the rest of the header,     *)
(* which is the length of the frame, and a payload that may look like      *)
(* anything.  The parser's buf holds the symbols consumed + 1 to pushed.   *)
(***************************************************************************)
EXTENDS Integers, Sequences

CONSTANTS
    AacPayloads,  \* payloads of the frames of the source: sequences of symbols
    MaxSymbols    \* bound: symbols of the stream after the cut frame

Sync1 == 255
Sync2 == 241
HeaderLength == 3

ASSUME AdtsAssumption ==
    MaxSymbols \in Nat /\ \A p \in AacPayloads : p \in Seq(Nat)

VARIABLES
    head,              \* symbols of the frame the stream begins in the middle of
    source,            \* what the source has sent
    begins,            \* where its frames begin
    pushed, consumed,  \* the ends of buf in the stream
    found              \* frames handed out: where they begin and their length

adtsVars == <<head, source, begins, pushed, consumed, found>>

SourceFrame(p) == <<Sync1, Sync2, HeaderLength + Len(p)>> \o p

AdtsInit ==
    /\ \/ head = 0 /\ source = << >>
       \/ \E p \in AacPayloads :
             /\ head \in 1..(Len(p) + HeaderLength - 1)
             /\ source = SubSeq(SourceFrame(p), Len(p) + HeaderLength - head + 1,
                                Len(p) + HeaderLength)
    /\ begins = {} /\ pushed = 0 /\ consumed = 0 /\ found = << >>

(* The source is at most a frame and three symbols ahead.                  *)
SourceSends(p) ==
    /\ Len(source) - head + Len(p) + HeaderLength <= MaxSymbols
    /\ Len(source) - pushed <= 3
    /\ source' = source \o SourceFrame(p) /\ begins' = begins \cup {Len(source) + 1}
    /\ UNCHANGED <<head, pushed, consumed, found>>

-----------------------------------------------------------------------------

(* The sync words in the buffer after d symbols, when r have been read.    *)
Syncs(d, r) == {i \in (d + 1)..(r - 1) : source[i] = Sync1 /\ source[i + 1] = Sync2}

FindSync(d, r) == CHOOSE i \in Syncs(d, r) : \A j \in Syncs(d, r) : i <= j

(* parse_header: the length at sync word i; a header that is incomplete or *)
(* makes no sense has none.                                                *)
HasHeader(i, r) == i + 2 <= r /\ source[i + 2] >= HeaderLength
FrameLength(i) == source[i + 2]

(* Mutant: the last symbol of a frame is not waited for.                   *)
ParsedEarly(r) ==
    LET f[d \in 0..(Len(source) + 1)] ==
            IF Syncs(d, r) = {} THEN [done |-> d, frames |-> << >>]
            ELSE LET i == FindSync(d, r)
                 IN  IF ~HasHeader(i, r) \/ r - i + 2 < FrameLength(i)
                     THEN [done |-> i - 1, frames |-> << >>]
                     ELSE LET rest == f[i - 1 + FrameLength(i)]
                          IN  [rest EXCEPT !.frames =
                                  <<[at |-> i, length |-> FrameLength(i)]>> \o @]
    IN  f[consumed]

(* Mutant: the search goes on behind the header of a frame.                *)
ParsedHeader(r) ==
    LET f[d \in 0..Len(source)] ==
            IF Syncs(d, r) = {} THEN [done |-> d, frames |-> << >>]
            ELSE LET i == FindSync(d, r)
                 IN  IF ~HasHeader(i, r) \/ r - i + 1 < FrameLength(i)
                     THEN [done |-> i - 1, frames |-> << >>]
                     ELSE LET rest == f[i - 1 + HeaderLength]
                          IN  [rest EXCEPT !.frames =
                                  <<[at |-> i, length |-> FrameLength(i)]>> \o @]
    IN  f[consumed]

(* The loop of push: on to each sync word, out with each complete frame,   *)
(* until there is none or its header or payload is not there.              *)
Parsed(r) ==
    LET f[d \in 0..Len(source)] ==
            IF Syncs(d, r) = {} THEN [done |-> d, frames |-> << >>]
            ELSE LET i == FindSync(d, r)
                 IN  IF ~HasHeader(i, r) \/ r - i + 1 < FrameLength(i)
                     THEN [done |-> i - 1, frames |-> << >>]
                     ELSE LET rest == f[i - 1 + FrameLength(i)]
                          IN  [rest EXCEPT !.frames =
                                  <<[at |-> i, length |-> FrameLength(i)]>> \o @]
    IN  f[consumed]

Push(n) ==
    /\ pushed' = pushed + n
    /\ consumed' = Parsed(pushed').done
    /\ found' = found \o Parsed(pushed').frames
    /\ UNCHANGED <<head, source, begins>>

AdtsNext ==
    \/ \E p \in AacPayloads : SourceSends(p)
    \/ \E n \in 1..(Len(source) - pushed) : Push(n)

AdtsSpec == AdtsInit /\ [][AdtsNext]_adtsVars

-----------------------------------------------------------------------------
(* Properties.                                                             *)

AdtsTypeOK ==
    /\ head \in Nat /\ source \in Seq(Nat) /\ begins \subseteq DOMAIN source
    /\ pushed \in 0..Len(source) /\ consumed \in 0..pushed
    /\ found \in Seq([at : Nat, length : Nat])

(* The source's frames of which all symbols have been pushed.              *)
Arrived == {b \in begins : b + FrameLength(b) - 1 <= pushed}
HandedOut == {found[k].at : k \in DOMAIN found}

(* Where a payload, or payload and what follows, looks like a sync word.   *)
FalseSyncs == {i \in 1..(pushed - 1) : /\ source[i] = Sync1 /\ source[i + 1] = Sync2
                                     /\ i \notin begins}

(* A stream that begins with a frame is cut at its frames, all that are    *)
(* complete, each whole and once, whatever is in them and however they are *)
(* chunked; one that does not, as long as nothing before its first frame   *)
(* looks like a sync word.                                                 *)
FramesWhole ==
    (\A i \in FalseSyncs : i > head) =>
        /\ HandedOut = Arrived
        /\ \A k \in DOMAIN found :
              /\ found[k].length = FrameLength(found[k].at)
              /\ k > 1 => found[k - 1].at < found[k].at

(* The front of the buffer is a sync word whose header makes no sense.     *)
Stuck ==
    Syncs(consumed, pushed) # {} /\ LET i == FindSync(consumed, pushed)
                              IN  i + 2 <= pushed /\ ~HasHeader(i, pushed)

(* There push stops at every call, and hands out nothing any more; it      *)
(* takes a stream that begins in the middle of a frame to get there.       *)
StuckByCut == Stuck => head > 0

(* Frames come out whole, and go on coming.                                *)
FramesCutOut == FramesWhole /\ StuckByCut
=============================================================================
