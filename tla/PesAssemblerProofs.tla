------------------------- MODULE PesAssemblerProofs -------------------------
(***************************************************************************)
(* Proofs about PesAssembler for any sizes and any losses.  What arrives   *)
(* is later than all that arrived before, so the order of the bytes is     *)
(* kept by appending; that a PES which is not damaged is in the buffer     *)
(* from its first byte on is what the locality of damage rests on.         *)
(***************************************************************************)
EXTENDS PesAssembler, TLAPS

USE PesAssumption

(* Byte x has left the device.                                             *)
Left(x) == x[1] < Last \/ (x[1] = Last /\ x[2] <= at)

Unmixed(s) ==
    \A a, b \in DOMAIN s : s[a][1] < s[b][1] => <<s[b][1], 1>> \in lost

DeviceInv ==
    /\ sent = << >> => at = 0
    /\ sent # << >> => sent[Last].first <= at /\ at <= sent[Last].size
    /\ \A p \in DOMAIN sent : sent[p].size > HeaderSize

(* Audio still in the buffer is later than all that was handed on.         *)
OrderInv ==
    /\ \A b \in DOMAIN buf : Left(buf[b])
    /\ \A i \in DOMAIN out : \A a \in DOMAIN out[i] : Left(out[i][a])
    /\ Ascending(buf) /\ Unmixed(buf)
    /\ collecting => \A b \in DOMAIN buf : buf[b][1] < Last => <<Last, 1>> \in lost
    /\ collecting =>
          \A i \in DOMAIN out : \A a \in DOMAIN out[i], b \in DOMAIN buf :
              Before(out[i][a], buf[b])

HandedOn(p) ==
    \E i \in DOMAIN out :
        out[i] = Bytes(p, HeaderSize, sent[p].size - HeaderSize)

(* The last PES, as long as it is undamaged, is in the buffer from its     *)
(* first byte on until its length completes it.                            *)
CurrentInv ==
    /\ sent # << >>
    /\ \A x \in lost : x[1] # Last
    /\ sent[Last].first >= StartSize /\ sent[Last].size <= MaxPesSize
    => IF sent[Last].says /\ sent[Last].first < sent[Last].size /\ at = sent[Last].size
       THEN HandedOn(Last)
       ELSE /\ collecting /\ buf = Bytes(Last, 0, at)
            /\ expected_len = IF sent[Last].says THEN sent[Last].size ELSE 0

IndInv ==
    /\ PesTypeOK /\ DeviceInv /\ OrderInv /\ CurrentInv
    /\ InOrder /\ MixedOnlyIfStartLost /\ DamageIsLocal

-----------------------------------------------------------------------------
(* Sequences of bytes.                                                     *)

LEMMA BytesFacts ==
    ASSUME NEW p \in Nat \ {0}, NEW from \in Nat, NEW n \in Nat
    PROVE  /\ Bytes(p, from, n) \in Seq(Byte)
           /\ Len(Bytes(p, from, n)) = n
           /\ DOMAIN Bytes(p, from, n) = 1..n
           /\ \A k \in 1..n : Bytes(p, from, n)[k] = <<p, from + k>>
BY DEF Bytes, Byte

(* What has left the device is before what leaves next.                    *)
LEMMA LeftBefore ==
    ASSUME PesTypeOK, NEW x \in Byte, Left(x), NEW q, NEW k \in Nat,
           \/ q = Last + 1
           \/ q = Last /\ at < k
    PROVE  Before(x, <<q, k>>)
BY DEF PesTypeOK, Left, Before, Byte, Last

(* The results of extract_audio_data are ends of the buffer.               *)
LEMMA AudioIsEnd ==
    ASSUME NEW b \in Seq(Byte), b # << >>, NEW data \in AudioData(b)
    PROVE  /\ data \in Seq(Byte)
           /\ \E start \in Nat : \A i \in DOMAIN data :
                 i + start \in DOMAIN b /\ data[i] = b[i + start]
<1>1. PICK start \in DataStarts(b) : data = SubSeq(b, start + 1, Len(b))
  BY DEF AudioData
<1>2. start \in Nat
  BY DEF DataStarts
<1>3. /\ data \in Seq(Byte)
      /\ \A i \in DOMAIN data : i + start \in DOMAIN b /\ data[i] = b[i + start]
  BY <1>1, <1>2
<1> QED BY <1>2, <1>3

(* An intact PES yields its audio, and nothing else.                       *)
LEMMA AudioOfWhole ==
    ASSUME NEW p \in Nat \ {0}, NEW size \in Nat, size > HeaderSize,
           NEW data \in AudioData(Bytes(p, 0, size))
    PROVE  data = Bytes(p, HeaderSize, size - HeaderSize)
<1> DEFINE b == Bytes(p, 0, size)
<1>0. \A k \in 1..size : 0 + k = k
  OBVIOUS
<1>1. b \in Seq(Byte) /\ Len(b) = size /\ \A k \in 1..size : b[k] = <<p, k>>
  <2>1. b \in Seq(Byte) /\ Len(b) = size /\ \A k \in 1..size : b[k] = <<p, 0 + k>>
    BY BytesFacts
  <2> QED BY <1>0, <2>1
<1>2. FixedSize \in 1..size /\ 1 \in 1..size
  OBVIOUS
<1>3. b[FixedSize] = <<p, FixedSize>> /\ b[1][1] = p
  BY <1>1, <1>2
<1>4. DataStarts(b) = {HeaderSize}
  BY <1>1, <1>2, <1>3 DEF DataStarts
<1>5. data = SubSeq(b, HeaderSize + 1, size)
  BY <1>1, <1>4 DEF AudioData
<1>6. Len(data) = size - HeaderSize /\ data \in Seq(Byte)
  BY <1>1, <1>5
<1>7. \A k \in 1..(size - HeaderSize) : data[k] = <<p, HeaderSize + k>>
  BY <1>1, <1>5
<1> QED BY <1>6, <1>7 DEF Bytes

(* Handing on the buffer, when all of it is later than what was handed on. *)
LEMMA HandOnKeeps ==
    ASSUME PesTypeOK, InOrder, MixedOnlyIfStartLost, lost' = lost,
           NEW b \in Seq(Byte), b # << >>, Ascending(b), Unmixed(b),
           \A i \in DOMAIN out : \A a \in DOMAIN out[i], k \in DOMAIN b :
               Before(out[i][a], b[k]),
           HandOn(b)
    PROVE  /\ out' \in Seq(Seq(Byte)) /\ InOrder' /\ MixedOnlyIfStartLost'
           /\ Len(out') = Len(out) + 1
           /\ \A i \in DOMAIN out : i \in DOMAIN out' /\ out'[i] = out[i]
           /\ \A a \in DOMAIN out'[Len(out) + 1] :
                 \E k \in DOMAIN b : out'[Len(out) + 1][a] = b[k]
           /\ out'[Len(out) + 1] \in AudioData(b)
<1>1. PICK data \in AudioData(b) : out' = Append(out, data)
  BY DEF HandOn
<1>2. PICK start \in Nat : \A i \in DOMAIN data :
          i + start \in DOMAIN b /\ data[i] = b[i + start]
  BY AudioIsEnd
<1>3. data \in Seq(Byte)
  BY AudioIsEnd
<1>4. /\ out' \in Seq(Seq(Byte)) /\ Len(out') = Len(out) + 1
      /\ \A i \in DOMAIN out : i \in DOMAIN out' /\ out'[i] = out[i]
      /\ out'[Len(out) + 1] = data
      /\ \A i \in DOMAIN out' : i \in DOMAIN out \/ i = Len(out) + 1
      /\ \A i \in DOMAIN out : i \in 1..Len(out)
  BY <1>1, <1>3 DEF PesTypeOK
<1>5. Ascending(data)
  BY <1>2, <1>3 DEF Ascending
<1>6. \A i \in DOMAIN out : \A a \in DOMAIN out[i], k \in DOMAIN data :
          Before(out[i][a], data[k])
  BY <1>2
<1>7. InOrder'
  <2>1. \A i \in DOMAIN out' : Ascending(out'[i])
    BY <1>4, <1>5 DEF InOrder
  <2>2. ASSUME NEW i \in DOMAIN out', NEW j \in DOMAIN out', i < j,
               NEW a \in DOMAIN out'[i], NEW k \in DOMAIN out'[j]
        PROVE  Before(out'[i][a], out'[j][k])
    <3>0. Len(out) \in Nat
      BY DEF PesTypeOK
    <3>1. i \in DOMAIN out /\ out'[i] = out[i]
      BY <1>4, <2>2, <3>0
    <3>2. CASE j \in DOMAIN out
      BY <1>4, <2>2, <3>1, <3>2 DEF InOrder
    <3>3. CASE j = Len(out) + 1
      BY <1>4, <1>6, <2>2, <3>1, <3>3
    <3> QED BY <1>4, <3>2, <3>3
  <2> QED BY <2>1, <2>2 DEF InOrder
<1>8. MixedOnlyIfStartLost'
  <2>1. \A a, c \in DOMAIN data : data[a][1] < data[c][1] => <<data[c][1], 1>> \in lost
    BY <1>2 DEF Unmixed
  <2> QED BY <1>4, <2>1 DEF MixedOnlyIfStartLost
<1> QED BY <1>1, <1>2, <1>4, <1>7, <1>8

-----------------------------------------------------------------------------
(* The steps.                                                              *)

(* A new PES is appended to what the device has sent.                      *)
LEMMA SentGrows ==
    ASSUME PesTypeOK, DeviceInv, NEW size \in PesSize, NEW says \in BOOLEAN,
           NEW n \in Payload, StartPes(size, says, n)
    PROVE  /\ sent' \in Seq(Pes) /\ Last \in Nat /\ Last' = Last + 1
           /\ DOMAIN sent = 1..Last /\ DOMAIN sent' = 1..(Last + 1)
           /\ \A p \in DOMAIN sent : sent'[p] = sent[p]
           /\ sent'[Last + 1] = [size |-> size, says |-> says, first |-> n]
           /\ n \in Nat \ {0} /\ n <= size /\ at' = n
           /\ DeviceInv'
<1>1. [size |-> size, says |-> says, first |-> n] \in Pes
  BY DEF Pes
<1>2. /\ sent' \in Seq(Pes) /\ Last \in Nat /\ Last' = Last + 1
      /\ DOMAIN sent = 1..Last /\ DOMAIN sent' = 1..(Last + 1)
      /\ \A p \in DOMAIN sent : sent'[p] = sent[p]
      /\ sent'[Last + 1] = [size |-> size, says |-> says, first |-> n]
  BY <1>1 DEF StartPes, PesTypeOK, Last
<1>3. n \in Nat \ {0} /\ n <= size /\ at' = n
  BY DEF StartPes
<1>4. DeviceInv'
  BY <1>2, <1>3 DEF DeviceInv, Last
<1> QED BY <1>2, <1>3, <1>4

LEMMA InitIndInv == PesInit => IndInv
<1> SUFFICES ASSUME PesInit PROVE IndInv
  OBVIOUS
<1>1. /\ << >> \in Seq(Pes) /\ << >> \in Seq(Byte) /\ << >> \in Seq(Seq(Byte))
      /\ Len(<< >>) = 0 /\ DOMAIN << >> = {}
  OBVIOUS
<1>2. /\ sent = << >> /\ at = 0 /\ lost = {} /\ buf = << >>
      /\ collecting = FALSE /\ expected_len = 0 /\ out = << >>
      /\ DOMAIN sent = {} /\ DOMAIN buf = {} /\ DOMAIN out = {}
  BY <1>1 DEF PesInit
<1>m. MaxPesSize \in Nat
  OBVIOUS
<1>3. PesTypeOK
  <2>1. sent \in Seq(Pes) /\ buf \in Seq(Byte) /\ out \in Seq(Seq(Byte))
    BY <1>1, <1>2
  <2>2. lost \subseteq Byte /\ at \in Nat /\ expected_len \in Nat
    BY <1>2
  <2>3. Len(buf) <= MaxPesSize
    BY <1>1, <1>2, <1>m
  <2> QED BY <1>2, <2>1, <2>2, <2>3 DEF PesTypeOK
<1>d. DeviceInv
  BY <1>2 DEF DeviceInv
<1>4. OrderInv /\ CurrentInv
  BY <1>2 DEF OrderInv, CurrentInv, Ascending, Unmixed
<1>5. InOrder /\ MixedOnlyIfStartLost /\ DamageIsLocal
  BY <1>2 DEF InOrder, MixedOnlyIfStartLost, DamageIsLocal
<1> QED BY <1>3, <1>d, <1>4, <1>5 DEF IndInv

LEMMA StartLostKeeps ==
    ASSUME IndInv, NEW size \in PesSize, NEW says \in BOOLEAN,
           NEW n \in Payload, StartLost(size, says, n)
    PROVE  IndInv'
<1> USE DEF IndInv
<1>1. StartPes(size, says, n) /\ UNCHANGED assembler /\ lost' = lost \cup {<<Last + 1, 1>>}
  BY DEF StartLost
<1>2. /\ sent' \in Seq(Pes) /\ Last \in Nat /\ Last' = Last + 1
      /\ DOMAIN sent = 1..Last /\ DOMAIN sent' = 1..(Last + 1)
      /\ \A p \in DOMAIN sent : sent'[p] = sent[p]
      /\ n \in Nat \ {0} /\ at' = n /\ DeviceInv'
  BY <1>1, SentGrows
<1>3. PesTypeOK'
  BY <1>1, <1>2 DEF PesTypeOK, assembler, Byte
<1>4. \A x \in Byte : Left(x) => Left(x)' /\ x[1] <= Last
  BY <1>2 DEF Left, Byte
<1>5. OrderInv'
  <2>1. buf \in Seq(Byte) /\ out \in Seq(Seq(Byte))
    BY DEF PesTypeOK
  <2>2. (\A b \in DOMAIN buf : Left(buf[b])')
        /\ (\A i \in DOMAIN out : \A a \in DOMAIN out[i] : Left(out[i][a])')
    BY <1>1, <1>4, <2>1 DEF OrderInv, assembler
  <2>3. Unmixed(buf)'
    BY <1>1, <2>1 DEF OrderInv, Unmixed, assembler
  <2> QED BY <1>1, <1>2, <2>2, <2>3 DEF OrderInv, assembler, Ascending
<1>s. /\ <<Last + 1, 1>> \in lost' /\ lost \subseteq lost'
      /\ <<Last + 1, 1>>[1] = Last'
  BY <1>1, <1>2
<1>6. CurrentInv'
  BY <1>s DEF CurrentInv
<1>7. InOrder' /\ MixedOnlyIfStartLost'
  BY <1>1 DEF InOrder, MixedOnlyIfStartLost, assembler, Ascending
<1>8. DamageIsLocal'
  <2> SUFFICES ASSUME NEW p \in DOMAIN sent', Intact(p)', EndSeen(p)'
               PROVE  HandedOn(p)'
    BY DEF DamageIsLocal, HandedOn
  <2>1. p \in DOMAIN sent /\ p <= Last
    BY <1>2, <1>s DEF Intact
  <2>2. sent # << >> /\ Complete
    BY <1>1, <1>2, <2>1 DEF StartPes
  <2>3. Intact(p)
    BY <1>1, <1>2, <2>1, <2>2 DEF Intact
  <2>4. EndSeen(p)
    BY <1>1, <1>2, <2>1 DEF EndSeen
  <2>5. HandedOn(p)
    BY <2>1, <2>3, <2>4 DEF DamageIsLocal, HandedOn
  <2> QED BY <1>1, <1>2, <2>1, <2>5 DEF HandedOn, assembler, Bytes
<1> QED BY <1>2, <1>3, <1>5, <1>6, <1>7, <1>8

LEMMA StartArrivesKeeps ==
    ASSUME IndInv, NEW size \in PesSize, NEW says \in BOOLEAN,
           NEW n \in Payload, StartArrives(size, says, n)
    PROVE  IndInv'
<1> USE DEF IndInv
<1> DEFINE P == Bytes(Last + 1, 0, n)
<1>1. /\ StartPes(size, says, n) /\ lost' = lost
      /\ PushStart(P, IF says THEN size ELSE 0)
  BY DEF StartArrives
<1>2. /\ sent' \in Seq(Pes) /\ Last \in Nat /\ Last' = Last + 1
      /\ DOMAIN sent = 1..Last /\ DOMAIN sent' = 1..(Last + 1)
      /\ \A p \in DOMAIN sent : sent'[p] = sent[p]
      /\ sent'[Last + 1] = [size |-> size, says |-> says, first |-> n]
      /\ n \in Nat \ {0} /\ n <= size /\ at' = n /\ DeviceInv'
  BY <1>1, SentGrows
<1>3. /\ P \in Seq(Byte) /\ Len(P) = n /\ DOMAIN P = 1..n
      /\ \A k \in 1..n : P[k] = <<Last + 1, k>>
  <2>1. Last + 1 \in Nat \ {0} /\ 0 \in Nat /\ n \in Nat
    BY <1>2
  <2>2. \A k \in 1..n : 0 + k = k
    OBVIOUS
  <2>3. /\ P \in Seq(Byte) /\ Len(P) = n /\ DOMAIN P = 1..n
        /\ \A k \in 1..n : P[k] = <<Last + 1, 0 + k>>
    BY <2>1, BytesFacts
  <2> QED BY <2>2, <2>3
<1>t. /\ buf \in Seq(Byte) /\ out \in Seq(Seq(Byte)) /\ lost \subseteq Byte
      /\ Complete /\ \A p \in DOMAIN sent : sent[p] \in Pes
  BY <1>1 DEF PesTypeOK, StartPes
<1>4. /\ out' \in Seq(Seq(Byte)) /\ InOrder' /\ MixedOnlyIfStartLost'
      /\ \A i \in DOMAIN out : i \in DOMAIN out' /\ out'[i] = out[i]
      /\ \A i \in DOMAIN out' : \A a \in DOMAIN out'[i] : Left(out'[i][a])
      /\ collecting /\ buf # << >> =>
            \E i \in DOMAIN out' : out'[i] \in AudioData(buf)
  <2>1. CASE collecting /\ buf # << >>
    <3>1. HandOn(buf)
      BY <1>1, <2>1 DEF PushStart
    <3>2. /\ out' \in Seq(Seq(Byte)) /\ InOrder' /\ MixedOnlyIfStartLost'
          /\ Len(out') = Len(out) + 1
          /\ \A i \in DOMAIN out : i \in DOMAIN out' /\ out'[i] = out[i]
          /\ \A a \in DOMAIN out'[Len(out) + 1] :
                \E k \in DOMAIN buf : out'[Len(out) + 1][a] = buf[k]
          /\ out'[Len(out) + 1] \in AudioData(buf)
      BY <1>1, <1>t, <2>1, <3>1, HandOnKeeps DEF OrderInv
    <3>3. \A i \in DOMAIN out' : i \in DOMAIN out \/ i = Len(out) + 1
      BY <1>t, <3>2
    <3>4. Len(out) + 1 \in DOMAIN out'
      BY <1>t, <3>2
    <3>5. \A i \in DOMAIN out' : \A a \in DOMAIN out'[i] : Left(out'[i][a])
      BY <3>2, <3>3 DEF OrderInv
    <3> QED BY <3>2, <3>4, <3>5
  <2>2. CASE ~(collecting /\ buf # << >>)
    <3>1. out' = out
      BY <1>1, <2>2 DEF PushStart
    <3> QED BY <1>1, <1>t, <2>2, <3>1 DEF OrderInv, InOrder, MixedOnlyIfStartLost, Ascending
  <2> QED BY <2>1, <2>2
<1>5. \/ /\ buf' = P /\ collecting' = TRUE /\ n >= StartSize
         /\ expected_len' = IF says THEN size ELSE 0
      \/ /\ buf' = << >> /\ collecting' = FALSE /\ n < StartSize
         /\ expected_len' = expected_len
  <2>1. CASE n >= StartSize
    BY <1>1, <1>3, <2>1 DEF PushStart
  <2>2. CASE ~(n >= StartSize)
    BY <1>1, <1>2, <1>3, <2>2 DEF PushStart
  <2> QED BY <2>1, <2>2
<1>6. PesTypeOK'
  <2>0. MaxPesSize \in Nat /\ n <= MaxPesSize
    OBVIOUS
  <2>1. buf' \in Seq(Byte) /\ Len(buf') <= MaxPesSize
    <3>1. CASE buf' = P
      BY <1>3, <2>0, <3>1
    <3>2. CASE buf' = << >>
      BY <2>0, <3>2
    <3> QED BY <1>5, <3>1, <3>2
  <2>2. collecting' \in BOOLEAN
    BY <1>5
  <2>3. expected_len \in Nat /\ size \in Nat
    BY DEF PesTypeOK
  <2>4. expected_len' \in Nat
    BY <1>5, <2>3
  <2> QED BY <1>1, <1>2, <1>4, <2>1, <2>2, <2>4 DEF PesTypeOK
<1>7. \A x \in Byte : Left(x) => Left(x)'
  BY <1>2 DEF Left, Byte
<1>8. OrderInv'
  <2>1. (\A i \in DOMAIN out : \A a \in DOMAIN out[i] : Left(out[i][a]))'
    BY <1>4, <1>7 DEF Left
  <2>2. CASE buf' = << >>
    BY <1>5, <2>1, <2>2 DEF OrderInv, Ascending, Unmixed
  <2>3. CASE buf' = P
    <3>1. \A b \in DOMAIN buf' : buf'[b] = <<Last + 1, b>> /\ b \in 1..n
      BY <1>2, <1>3, <2>3
    <3>2. (\A b \in DOMAIN buf : Left(buf[b]))'
      BY <1>2, <3>1 DEF Left
    <3>3. Ascending(buf)' /\ Unmixed(buf)'
      BY <1>2, <3>1 DEF Ascending, Unmixed, Before
    <3>4. \A b \in DOMAIN buf' : ~(buf'[b][1] < Last')
      BY <1>2, <3>1
    <3>5. \A i \in DOMAIN out' : \A a \in DOMAIN out'[i], b \in DOMAIN buf' :
             Before(out'[i][a], buf'[b])
      BY <1>2, <1>4, <3>1, LeftBefore
    <3> QED BY <2>1, <3>2, <3>3, <3>4, <3>5 DEF OrderInv
  <2> QED BY <1>5, <2>2, <2>3
<1>9. CurrentInv'
  BY <1>1, <1>2, <1>5 DEF CurrentInv
<1>10. DamageIsLocal'
  <2> SUFFICES ASSUME NEW p \in DOMAIN sent', Intact(p)', EndSeen(p)'
               PROVE  HandedOn(p)'
    BY DEF DamageIsLocal, HandedOn
  <2>1. p \in DOMAIN sent /\ p <= Last
    BY <1>2 DEF Intact, EndSeen, Complete
  <2>2. sent # << >> /\ Intact(p)
    BY <1>1, <1>2, <1>t, <2>1 DEF Intact
  <2>3. CASE EndSeen(p)
    <3>1. HandedOn(p)
      BY <2>1, <2>2, <2>3 DEF DamageIsLocal, HandedOn
    <3> QED BY <1>2, <1>4, <2>1, <3>1 DEF HandedOn, Bytes
  <2>4. CASE ~EndSeen(p)
    <3>1. p = Last /\ ~(sent[p].says /\ sent[p].first < sent[p].size)
      BY <1>1, <1>2, <2>1, <2>4 DEF EndSeen
    <3>2. collecting /\ buf = Bytes(p, 0, at) /\ at = sent[p].size
      BY <1>t, <2>2, <3>1 DEF CurrentInv, Intact, Complete
    <3>3. sent[p].size \in Nat /\ sent[p].size > HeaderSize /\ p \in Nat \ {0}
      <4>1. sent[p] \in Pes
        BY <1>t, <2>1 DEF PesTypeOK
      <4>2. sent[p].size > HeaderSize
        BY <2>1 DEF DeviceInv
      <4>3. p \in Nat \ {0}
        BY <1>2, <2>1
      <4> QED BY <4>1, <4>2, <4>3 DEF Pes
    <3>4. buf # << >>
      <4>1. Len(buf) = sent[p].size
        BY <3>2, <3>3, BytesFacts
      <4> QED BY <3>3, <4>1
    <3>5. PICK i \in DOMAIN out' : out'[i] \in AudioData(Bytes(p, 0, sent[p].size))
      BY <1>4, <3>2, <3>4
    <3>6. out'[i] = Bytes(p, HeaderSize, sent[p].size - HeaderSize)
      BY <3>3, <3>5, AudioOfWhole
    <3> QED BY <1>2, <2>1, <3>6 DEF HandedOn, Bytes
  <2> QED BY <2>3, <2>4
<1> QED BY <1>2, <1>4, <1>6, <1>8, <1>9, <1>10

LEMMA Concatenation ==
    ASSUME NEW s \in Seq(Byte), NEW t \in Seq(Byte)
    PROVE  /\ s \o t \in Seq(Byte) /\ Len(s \o t) = Len(s) + Len(t)
           /\ DOMAIN (s \o t) = 1..(Len(s) + Len(t))
           /\ \A k \in 1..Len(s) : (s \o t)[k] = s[k]
           /\ \A k \in 1..Len(t) : (s \o t)[Len(s) + k] = t[k]
           /\ \A k \in DOMAIN (s \o t) :
                 k \in DOMAIN s \/ \E j \in DOMAIN t : k = Len(s) + j
<1>1. /\ s \o t \in Seq(Byte) /\ Len(s \o t) = Len(s) + Len(t)
      /\ DOMAIN (s \o t) = 1..(Len(s) + Len(t))
  OBVIOUS
<1>2. \A k \in 1..Len(s) : (s \o t)[k] = s[k]
  OBVIOUS
<1>3. \A k \in 1..Len(t) : (s \o t)[Len(s) + k] = t[k]
  OBVIOUS
<1>4. ASSUME NEW k \in 1..(Len(s) + Len(t)), k \notin 1..Len(s)
      PROVE  \E j \in 1..Len(t) : k = Len(s) + j
  <2>1. k - Len(s) \in 1..Len(t) /\ k = Len(s) + (k - Len(s))
    BY <1>4
  <2> QED BY <2>1
<1>5. DOMAIN s = 1..Len(s) /\ DOMAIN t = 1..Len(t)
  OBVIOUS
<1> QED BY <1>1, <1>2, <1>3, <1>4, <1>5

(* Two pieces of a PES that follow each other are one piece.               *)
LEMMA BytesJoin ==
    ASSUME NEW p \in Nat \ {0}, NEW from \in Nat, NEW n \in Nat
    PROVE  Bytes(p, 0, from) \o Bytes(p, from, n) = Bytes(p, 0, from + n)
<1>1. ASSUME NEW s, s = Bytes(p, 0, from), NEW t, t = Bytes(p, from, n),
             NEW u, u = Bytes(p, 0, from + n)
      PROVE  s \o t = u
  <2>0. 0 \in Nat /\ from + n \in Nat /\ \A k \in Nat : 0 + k = k
    OBVIOUS
  <2>1. s \in Seq(Byte) /\ Len(s) = from /\ \A k \in 1..from : s[k] = <<p, 0 + k>>
    <3>1. /\ Bytes(p, 0, from) \in Seq(Byte) /\ Len(Bytes(p, 0, from)) = from
          /\ \A k \in 1..from : Bytes(p, 0, from)[k] = <<p, 0 + k>>
      BY <2>0, BytesFacts
    <3> QED BY <1>1, <3>1, Zenon
  <2>2. t \in Seq(Byte) /\ Len(t) = n /\ \A k \in 1..n : t[k] = <<p, from + k>>
    <3>1. /\ Bytes(p, from, n) \in Seq(Byte) /\ Len(Bytes(p, from, n)) = n
          /\ \A k \in 1..n : Bytes(p, from, n)[k] = <<p, from + k>>
      BY BytesFacts
    <3> QED BY <1>1, <3>1, Zenon
  <2>3. /\ u \in Seq(Byte) /\ Len(u) = from + n
        /\ \A k \in 1..(from + n) : u[k] = <<p, 0 + k>>
    <3>1. ASSUME NEW m \in Nat, m = from + n
          PROVE  /\ u \in Seq(Byte) /\ Len(u) = m
                 /\ \A k \in 1..m : u[k] = <<p, 0 + k>>
      <4>1. u = Bytes(p, 0, m) /\ 0 \in Nat
        BY <1>1, <3>1
      <4>2. /\ Bytes(p, 0, m) \in Seq(Byte) /\ Len(Bytes(p, 0, m)) = m
            /\ \A k \in 1..m : Bytes(p, 0, m)[k] = <<p, 0 + k>>
        BY <4>1, BytesFacts
      <4> QED BY <4>1, <4>2
    <3> QED BY <2>0, <3>1
  <2>4. s \o t \in Seq(Byte) /\ Len(s \o t) = from + n
    BY <2>1, <2>2, Concatenation
  <2>5. ASSUME NEW k \in 1..(from + n) PROVE (s \o t)[k] = u[k]
    <3>1. CASE k \in 1..from
      <4>1. (s \o t)[k] = s[k]
        BY <2>1, <2>2, <3>1, Concatenation
      <4> QED BY <2>1, <2>3, <3>1, <4>1
    <3>2. CASE k \notin 1..from
      <4>1. k - from \in 1..n /\ from + (k - from) = k /\ 0 + k = k
        BY <3>2
      <4>2. (s \o t)[from + (k - from)] = t[k - from]
        BY <2>1, <2>2, <4>1, Concatenation
      <4>3. t[k - from] = <<p, k>> /\ u[k] = <<p, k>>
        BY <2>2, <2>3, <4>1
      <4> QED BY <4>1, <4>2, <4>3
    <3> QED BY <3>1, <3>2
  <2> QED BY <2>3, <2>4, <2>5
<1> QED BY <1>1

(* The PES goes on: what the device's part of the state comes to.          *)
LEMMA PesGoesOn ==
    ASSUME IndInv, NEW n \in Payload, ContinuePes(n)
    PROVE  /\ sent # << >> /\ Last \in Nat \ {0} /\ Last \in DOMAIN sent
           /\ DOMAIN sent = 1..Last
           /\ sent[Last] \in Pes /\ sent[Last].size > HeaderSize
           /\ n \in Nat \ {0} /\ at' = at + n /\ at' \in Nat /\ sent' = sent
           /\ Last' = Last /\ at < at' /\ at' <= sent[Last].size
           /\ sent[Last].first <= at
           /\ DeviceInv'
           /\ \A x \in Byte : Left(x) => Left(x)'
<1> USE DEF IndInv
<1>1. sent # << >>
  BY DEF ContinuePes, Complete, DeviceInv
<1>2. /\ Last \in Nat \ {0} /\ Last \in DOMAIN sent /\ DOMAIN sent = 1..Last
      /\ sent[Last] \in Pes
  BY <1>1 DEF PesTypeOK, Last
<1>3. n \in Nat \ {0} /\ at' = at + n /\ at' \in Nat /\ sent' = sent
      /\ at < at' /\ n <= sent[Last].size - at
  BY DEF ContinuePes, PesTypeOK
<1>4. at' <= sent[Last].size /\ sent[Last].first <= at
  BY <1>1, <1>2, <1>3 DEF DeviceInv, Pes, PesTypeOK
<1>5. Last' = Last
  BY <1>3 DEF Last
<1>6. DeviceInv'
  BY <1>1, <1>2, <1>3, <1>4, <1>5 DEF DeviceInv, PesTypeOK, Pes
<1>7. \A x \in Byte : Left(x) => Left(x)'
  BY <1>2, <1>3, <1>5 DEF Left, Byte, PesTypeOK
<1> QED BY <1>1, <1>2, <1>3, <1>4, <1>5, <1>6, <1>7 DEF DeviceInv

LEMMA MoreLostKeeps ==
    ASSUME IndInv, NEW n \in Payload, MoreLost(n)
    PROVE  IndInv'
<1> USE DEF IndInv
<1>1. ContinuePes(n) /\ UNCHANGED assembler /\ lost' = lost \cup {<<Last, at + 1>>}
  BY DEF MoreLost
<1>2. /\ sent # << >> /\ Last \in Nat \ {0} /\ sent' = sent /\ Last' = Last
      /\ at' \in Nat /\ DeviceInv' /\ DOMAIN sent = 1..Last
      /\ \A x \in Byte : Left(x) => Left(x)'
  BY <1>1, PesGoesOn
<1>3. /\ <<Last, at + 1>> \in lost' /\ lost \subseteq lost'
      /\ <<Last, at + 1>>[1] = Last'
  BY <1>1, <1>2
<1>4. PesTypeOK'
  BY <1>1, <1>2 DEF PesTypeOK, assembler, Byte
<1>5. OrderInv'
  <2>1. buf \in Seq(Byte) /\ out \in Seq(Seq(Byte))
    BY DEF PesTypeOK
  <2>2. (\A b \in DOMAIN buf : Left(buf[b]))'
        /\ (\A i \in DOMAIN out : \A a \in DOMAIN out[i] : Left(out[i][a]))'
    BY <1>1, <1>2, <2>1 DEF OrderInv, assembler
  <2>3. Unmixed(buf)'
    BY <1>1, <1>3, <2>1 DEF OrderInv, Unmixed, assembler
  <2> QED BY <1>1, <1>2, <1>3, <2>2, <2>3 DEF OrderInv, assembler, Ascending
<1>6. CurrentInv'
  BY <1>3 DEF CurrentInv
<1>7. InOrder' /\ MixedOnlyIfStartLost'
  BY <1>1 DEF InOrder, MixedOnlyIfStartLost, assembler, Ascending
<1>8. DamageIsLocal'
  <2> SUFFICES ASSUME NEW p \in DOMAIN sent', Intact(p)', EndSeen(p)'
               PROVE  HandedOn(p)'
    BY DEF DamageIsLocal, HandedOn
  <2>1. p \in DOMAIN sent /\ p # Last
    BY <1>2, <1>3 DEF Intact
  <2>2. Intact(p) /\ EndSeen(p)
    BY <1>2, <1>3, <2>1 DEF Intact, EndSeen
  <2>3. HandedOn(p)
    BY <2>1, <2>2 DEF DamageIsLocal, HandedOn
  <2> QED BY <1>1, <1>2, <2>3 DEF HandedOn, assembler, Bytes
<1> QED BY <1>2, <1>4, <1>5, <1>6, <1>7, <1>8

LEMMA MoreArrivesKeeps ==
    ASSUME IndInv, NEW n \in Payload, MoreArrives(n)
    PROVE  IndInv'
<1> USE DEF IndInv
<1> DEFINE P == Bytes(Last, at, n)
           b == buf \o P
           tooLong == Len(b) > MaxPesSize
           complete == ~tooLong /\ expected_len > 0 /\ Len(b) >= expected_len
<1>1. ContinuePes(n) /\ lost' = lost /\ PushMore(P)
  BY DEF MoreArrives
<1>2. /\ sent # << >> /\ Last \in Nat \ {0} /\ Last \in DOMAIN sent
      /\ DOMAIN sent = 1..Last
      /\ sent[Last] \in Pes /\ sent[Last].size > HeaderSize
      /\ n \in Nat \ {0} /\ at' = at + n /\ at' \in Nat /\ sent' = sent
      /\ Last' = Last /\ at < at' /\ at' <= sent[Last].size
      /\ sent[Last].first <= at
      /\ DeviceInv'
      /\ \A x \in Byte : Left(x) => Left(x)'
  BY <1>1, PesGoesOn
<1>t. /\ buf \in Seq(Byte) /\ out \in Seq(Seq(Byte)) /\ at \in Nat
      /\ expected_len \in Nat /\ MaxPesSize \in Nat /\ lost \subseteq Byte
      /\ sent \in Seq(Pes) /\ collecting \in BOOLEAN /\ Len(buf) <= MaxPesSize
  BY DEF PesTypeOK
<1>3. /\ P \in Seq(Byte) /\ Len(P) = n /\ DOMAIN P = 1..n
      /\ \A k \in 1..n : P[k] = <<Last, at + k>>
  <2>1. Last \in Nat \ {0} /\ at \in Nat /\ n \in Nat
    BY <1>2, <1>t
  <2> QED BY <2>1, BytesFacts
<1>4. /\ b \in Seq(Byte) /\ Len(b) = Len(buf) + n /\ b # << >>
      /\ DOMAIN b = 1..(Len(buf) + n)
      /\ \A k \in DOMAIN buf : b[k] = buf[k] /\ k \in 1..Len(buf)
      /\ \A k \in 1..n : b[Len(buf) + k] = <<Last, at + k>>
      /\ \A k \in DOMAIN b : k \in DOMAIN buf \/ \E j \in 1..n : k = Len(buf) + j
  <2>1. /\ b \in Seq(Byte) /\ Len(b) = Len(buf) + Len(P)
        /\ DOMAIN b = 1..(Len(buf) + Len(P))
        /\ \A k \in 1..Len(buf) : b[k] = buf[k]
        /\ \A k \in 1..Len(P) : b[Len(buf) + k] = P[k]
        /\ \A k \in DOMAIN b : k \in DOMAIN buf \/ \E j \in DOMAIN P : k = Len(buf) + j
    BY <1>t, <1>3, Concatenation
  <2>2. DOMAIN buf = 1..Len(buf) /\ Len(buf) \in Nat
    BY <1>t
  <2>3. Len(b) # 0
    BY <1>2, <1>3, <2>1, <2>2
  <2>4. b # << >>
    BY <2>3
  <2> QED BY <1>3, <2>1, <2>2, <2>4
<1> HIDE DEF b, P
(* What arrives is later than the buffer and all that was handed on.       *)
<1>5. /\ \A k \in 1..n : <<Last, at + k>> \in Byte
      /\ \A x \in Byte, k \in 1..n : Left(x) => Before(x, <<Last, at + k>>)
      /\ \A y \in Byte, k \in 1..n : y = <<Last, at + k>> => Left(y)'
      /\ \A k \in DOMAIN buf : buf[k] \in Byte /\ Left(buf[k]) /\ buf[k][1] <= Last
      /\ \A k \in DOMAIN b : k \notin DOMAIN buf => b[k][1] = Last
      /\ \A k \in DOMAIN b : b[k] \in Byte /\ b[k][1] <= Last
  <2>1. \A k \in 1..n : <<Last, at + k>> \in Byte
    BY <1>2, <1>t DEF Byte
  <2>2. \A x \in Byte, k \in 1..n : Left(x) => Before(x, <<Last, at + k>>)
    BY <1>t, <1>2, LeftBefore
  <2>3. \A y \in Byte, k \in 1..n : y = <<Last, at + k>> => Left(y)'
    BY <1>2, <1>t DEF Left
  <2>4. ASSUME NEW k \in DOMAIN buf
        PROVE  buf[k] \in Byte /\ Left(buf[k]) /\ buf[k][1] <= Last
    <3>1. buf[k] \in Byte /\ Left(buf[k])
      BY <1>t DEF OrderInv
    <3> QED BY <3>1, <1>2 DEF Left, Byte
  <2>5. ASSUME NEW k \in DOMAIN b, k \notin DOMAIN buf PROVE b[k][1] = Last
    <3>1. PICK j \in 1..n : k = Len(buf) + j
      BY <1>4, <2>5
    <3>2. b[k] = <<Last, at + j>>
      BY <1>4, <3>1
    <3> QED BY <3>2
  <2>6. ASSUME NEW k \in DOMAIN b PROVE b[k] \in Byte /\ b[k][1] <= Last
    <3>1. b[k] \in Byte
      BY <1>4
    <3>2. CASE k \in DOMAIN buf
      BY <1>4, <2>4, <3>1, <3>2
    <3>3. CASE k \notin DOMAIN buf
      BY <1>2, <2>5, <3>1, <3>3
    <3> QED BY <3>2, <3>3
  <2> QED BY <2>1, <2>2, <2>3, <2>4, <2>5, <2>6
<1>6. Ascending(b)
  <2> SUFFICES ASSUME NEW i \in DOMAIN b, NEW j \in DOMAIN b, i < j
               PROVE  Before(b[i], b[j])
    BY DEF Ascending
  <2>1. CASE j \in DOMAIN buf
    <3>1. i \in DOMAIN buf
      BY <1>4, <1>t, <2>1
    <3> QED BY <1>4, <2>1, <3>1 DEF OrderInv, Ascending
  <2>2. CASE j \notin DOMAIN buf /\ i \in DOMAIN buf
    <3>1. PICK k \in 1..n : b[j] = <<Last, at + k>>
      BY <1>4, <2>2
    <3>2. b[i] = buf[i] /\ buf[i] \in Byte /\ Left(buf[i])
      BY <1>4, <1>t, <2>2 DEF OrderInv
    <3> QED BY <1>5, <3>1, <3>2
  <2>3. CASE j \notin DOMAIN buf /\ i \notin DOMAIN buf
    <3>1. PICK k \in 1..n : j = Len(buf) + k
      BY <1>4, <2>3
    <3>2. PICK l \in 1..n : i = Len(buf) + l
      BY <1>4, <2>3
    <3>3. l < k /\ at + l < at + k
      BY <1>t, <3>1, <3>2
    <3>4. b[j] = <<Last, at + k>> /\ b[i] = <<Last, at + l>>
      BY <1>4, <3>1, <3>2
    <3> QED BY <3>3, <3>4 DEF Before
  <2> QED BY <2>1, <2>2, <2>3
<1>7. CASE ~collecting
  <2>1. UNCHANGED assembler
    BY <1>1, <1>7 DEF PushMore
  <2>2. PesTypeOK'
    BY <1>1, <1>2, <1>t, <2>1 DEF PesTypeOK, assembler
  <2>3. OrderInv'
    <3>1. (\A k \in DOMAIN buf : Left(buf[k]))'
          /\ (\A i \in DOMAIN out : \A a \in DOMAIN out[i] : Left(out[i][a]))'
      BY <1>2, <1>t, <2>1 DEF OrderInv, assembler
    <3> QED BY <1>1, <1>7, <2>1, <3>1 DEF OrderInv, assembler, Ascending, Unmixed
  <2>4. ~((\A x \in lost : x[1] # Last) /\ sent[Last].first >= StartSize
          /\ sent[Last].size <= MaxPesSize)
    BY <1>2, <1>7, <1>t DEF CurrentInv, Pes
  <2>5. CurrentInv'
    BY <1>1, <1>2, <2>4 DEF CurrentInv
  <2>6. InOrder' /\ MixedOnlyIfStartLost'
    BY <1>1, <2>1 DEF InOrder, MixedOnlyIfStartLost, assembler, Ascending
  <2>7. DamageIsLocal'
    <3> SUFFICES ASSUME NEW p \in DOMAIN sent', Intact(p)', EndSeen(p)'
                 PROVE  HandedOn(p)'
      BY DEF DamageIsLocal, HandedOn
    <3>1. p \in DOMAIN sent /\ p # Last
      BY <1>1, <1>2, <2>4 DEF Intact
    <3>2. Intact(p) /\ EndSeen(p)
      BY <1>1, <1>2, <3>1 DEF Intact, EndSeen
    <3> QED BY <1>2, <2>1, <3>1, <3>2 DEF DamageIsLocal, HandedOn, assembler, Bytes
  <2> QED BY <1>2, <2>2, <2>3, <2>5, <2>6, <2>7
<1>8. CASE collecting
  <2>1. /\ buf' = IF tooLong THEN << >> ELSE b
        /\ collecting' = (~tooLong /\ ~complete)
        /\ IF complete THEN HandOn(b) ELSE out' = out
        /\ expected_len' = expected_len
    BY <1>1, <1>8 DEF PushMore, b, P
  <2>2. Unmixed(b)
    <3> SUFFICES ASSUME NEW i \in DOMAIN b, NEW j \in DOMAIN b, b[i][1] < b[j][1]
                 PROVE  <<b[j][1], 1>> \in lost
      BY DEF Unmixed
    <3>1. b[i][1] \in Nat /\ b[j][1] \in Nat /\ b[j][1] <= Last
      BY <1>5 DEF Byte
    <3>3. i \in DOMAIN buf
      BY <1>2, <1>5, <3>1
    <3>4. CASE j \in DOMAIN buf
      BY <1>4, <3>3, <3>4 DEF OrderInv, Unmixed
    <3>5. CASE j \notin DOMAIN buf
      BY <1>4, <1>5, <1>8, <3>3, <3>5 DEF OrderInv
    <3> QED BY <3>4, <3>5
  <2>3. \A i \in DOMAIN out : \A a \in DOMAIN out[i], k \in DOMAIN b :
            Before(out[i][a], b[k])
    <3> SUFFICES ASSUME NEW i \in DOMAIN out, NEW a \in DOMAIN out[i],
                        NEW k \in DOMAIN b
                 PROVE  Before(out[i][a], b[k])
      OBVIOUS
    <3>1. CASE k \in DOMAIN buf
      BY <1>4, <1>8, <3>1 DEF OrderInv
    <3>2. CASE k \notin DOMAIN buf
      <4>1. out[i][a] \in Byte /\ Left(out[i][a])
        BY <1>t DEF OrderInv
      <4>2. PICK j \in 1..n : b[k] = <<Last, at + j>>
        BY <1>4, <3>2
      <4> QED BY <1>5, <4>1, <4>2
    <3> QED BY <3>1, <3>2
  <2>4. /\ out' \in Seq(Seq(Byte)) /\ InOrder' /\ MixedOnlyIfStartLost'
        /\ \A i \in DOMAIN out : i \in DOMAIN out' /\ out'[i] = out[i]
        /\ complete => \E i \in DOMAIN out' : out'[i] \in AudioData(b)
        /\ (\A i \in DOMAIN out : \A a \in DOMAIN out[i] : Left(out[i][a]))'
        /\ \A y \in Byte : (\E k \in DOMAIN b : y = b[k]) => Left(y)'
    <3>1. \A y \in Byte : (\E k \in DOMAIN b : y = b[k]) => Left(y)'
      <4>1. ASSUME NEW y \in Byte, NEW k \in DOMAIN b, y = b[k] PROVE Left(y)'
        <5>1. CASE k \in DOMAIN buf
          BY <1>2, <1>4, <1>5, <4>1, <5>1
        <5>2. CASE k \notin DOMAIN buf
          BY <1>4, <1>5, <4>1, <5>2
        <5> QED BY <5>1, <5>2
      <4> QED BY <4>1
    <3>2. \A y \in Byte : (\E i \in DOMAIN out : \E a \in DOMAIN out[i] : y = out[i][a])
              => Left(y)'
      BY <1>2, <1>t DEF OrderInv
    <3>3. CASE complete
      <4>1. HandOn(b)
        BY <2>1, <3>3
      <4>2. /\ out' \in Seq(Seq(Byte)) /\ InOrder' /\ MixedOnlyIfStartLost'
            /\ Len(out') = Len(out) + 1
            /\ \A i \in DOMAIN out : i \in DOMAIN out' /\ out'[i] = out[i]
            /\ \A a \in DOMAIN out'[Len(out) + 1] :
                  \E k \in DOMAIN b : out'[Len(out) + 1][a] = b[k]
            /\ out'[Len(out) + 1] \in AudioData(b)
        BY <1>1, <1>4, <1>6, <2>2, <2>3, <4>1, HandOnKeeps
      <4>3. \A i \in DOMAIN out' : i \in DOMAIN out \/ i = Len(out) + 1
        BY <1>t, <4>2
      <4>4. Len(out) + 1 \in DOMAIN out'
        BY <1>t, <4>2
      <4>5. \A i \in DOMAIN out' : \A a \in DOMAIN out'[i] : out'[i][a] \in Byte
        BY <4>2
      <4>6. (\A i \in DOMAIN out : \A a \in DOMAIN out[i] : Left(out[i][a]))'
        BY <3>1, <3>2, <4>2, <4>3, <4>5
      <4> QED BY <3>1, <4>2, <4>4, <4>6
    <3>4. CASE ~complete
      <4>1. out' = out
        BY <2>1, <3>4
      <4>2. (\A i \in DOMAIN out : \A a \in DOMAIN out[i] : Left(out[i][a]))'
        BY <1>t, <3>2, <4>1
      <4> QED BY <1>1, <1>t, <3>1, <3>4, <4>1, <4>2
              DEF InOrder, MixedOnlyIfStartLost, Ascending
    <3> QED BY <3>1, <3>3, <3>4
  <2>5. PesTypeOK'
    <3>1. buf' \in Seq(Byte) /\ Len(buf') <= MaxPesSize
      <4>1. CASE tooLong
        BY <1>t, <2>1, <4>1
      <4>2. CASE ~tooLong
        BY <1>t, <1>4, <2>1, <4>2
      <4> QED BY <4>1, <4>2
    <3>2. collecting' \in BOOLEAN
      BY <2>1
    <3> QED BY <1>1, <1>2, <1>t, <2>1, <2>4, <3>1, <3>2 DEF PesTypeOK
  <2>6. OrderInv'
    <3>1. CASE tooLong
      <4>1. buf' = << >> /\ collecting' = FALSE
        BY <2>1, <3>1
      <4> QED BY <2>4, <4>1 DEF OrderInv, Ascending, Unmixed
    <3>2. CASE ~tooLong
      <4>1. buf' = b /\ (collecting' => ~complete)
        BY <2>1, <3>2
      <4>2. (\A k \in DOMAIN buf : Left(buf[k]))'
        BY <1>5, <2>4, <4>1
      <4>3. Ascending(buf)' /\ Unmixed(buf)'
        BY <1>1, <1>6, <2>2, <4>1 DEF Ascending, Unmixed
      <4>4. \A k \in DOMAIN b : b[k][1] < Last => <<Last, 1>> \in lost
        <5>1. ASSUME NEW k \in DOMAIN b, b[k][1] < Last
              PROVE  <<Last, 1>> \in lost
          <6>1. k \in DOMAIN buf
            BY <1>2, <1>5, <5>1
          <6> QED BY <1>4, <1>8, <5>1, <6>1 DEF OrderInv
        <5> QED BY <5>1
      <4>5. collecting' =>
               \A i \in DOMAIN out' : \A a \in DOMAIN out'[i], k \in DOMAIN buf' :
                   Before(out'[i][a], buf'[k])
        BY <2>1, <2>3, <4>1
      <4> QED BY <1>1, <1>2, <2>4, <4>1, <4>2, <4>3, <4>4, <4>5 DEF OrderInv
    <3> QED BY <3>1, <3>2
  <2>7. CurrentInv'
    <3> SUFFICES ASSUME \A x \in lost : x[1] # Last, sent[Last].first >= StartSize,
                        sent[Last].size <= MaxPesSize
                 PROVE  IF sent[Last].says /\ sent[Last].first < sent[Last].size
                           /\ at' = sent[Last].size
                        THEN HandedOn(Last)'
                        ELSE /\ collecting' /\ buf' = Bytes(Last, 0, at')
                             /\ expected_len' = IF sent[Last].says
                                                THEN sent[Last].size ELSE 0
      BY <1>1, <1>2 DEF CurrentInv, HandedOn, Bytes
    <3>1. /\ buf = Bytes(Last, 0, at)
          /\ expected_len = IF sent[Last].says THEN sent[Last].size ELSE 0
      BY <1>2, <1>t DEF CurrentInv, Pes
    <3>2. b = Bytes(Last, 0, at')
      BY <1>2, <1>t, <3>1, BytesJoin DEF b, P
    <3>3. Len(b) = at' /\ ~tooLong
      <4>1. Len(b) = at'
        BY <1>2, <3>2, BytesFacts
      <4> QED BY <1>2, <1>t, <4>1 DEF Pes
    <3>4. complete <=> sent[Last].says /\ at' = sent[Last].size
      <4>1. sent[Last].size \in Nat /\ sent[Last].size > 0 /\ sent[Last].says \in BOOLEAN
        BY <1>2 DEF Pes
      <4>2. CASE sent[Last].says
        BY <1>2, <3>1, <3>3, <4>1, <4>2
      <4>3. CASE ~sent[Last].says
        BY <1>2, <3>1, <3>3, <4>1, <4>3
      <4> QED BY <4>2, <4>3
    <3>5. CASE complete
      <4>1. sent[Last].says /\ at' = sent[Last].size /\ sent[Last].first < sent[Last].size
        BY <1>2, <1>t, <3>4, <3>5 DEF Pes
      <4>2. PICK i \in DOMAIN out' : out'[i] \in AudioData(Bytes(Last, 0, sent[Last].size))
        BY <2>4, <3>2, <3>5, <4>1
      <4>3. out'[i] = Bytes(Last, HeaderSize, sent[Last].size - HeaderSize)
        BY <1>2, <4>2, AudioOfWhole DEF Pes
      <4> QED BY <1>2, <4>1, <4>3 DEF HandedOn, Bytes
    <3>6. CASE ~complete
      <4>1. collecting' = TRUE /\ buf' = Bytes(Last, 0, at')
        BY <2>1, <3>2, <3>3, <3>6
      <4> QED BY <2>1, <3>1, <3>4, <3>6, <4>1
    <3> QED BY <3>5, <3>6
  <2>8. DamageIsLocal'
    <3> SUFFICES ASSUME NEW p \in DOMAIN sent', Intact(p)', EndSeen(p)'
                 PROVE  HandedOn(p)'
      BY DEF DamageIsLocal, HandedOn
    <3>1. CASE p = Last
      <4>1. at' = sent[Last].size /\ sent[Last].says /\ sent[Last].first < sent[Last].size
        BY <1>1, <1>2, <3>1 DEF Intact, EndSeen, Complete
      <4> QED BY <1>1, <1>2, <2>7, <3>1, <4>1 DEF Intact, CurrentInv
    <3>2. CASE p # Last
      <4>1. Intact(p) /\ EndSeen(p) /\ p \in DOMAIN sent
        BY <1>1, <1>2, <3>2 DEF Intact, EndSeen
      <4>2. HandedOn(p)
        BY <4>1 DEF DamageIsLocal, HandedOn
      <4> QED BY <1>2, <2>4, <4>2 DEF HandedOn, Bytes
    <3> QED BY <3>1, <3>2
  <2> QED BY <1>2, <2>4, <2>5, <2>6, <2>7, <2>8
<1> QED BY <1>t, <1>7, <1>8

-----------------------------------------------------------------------------
(* The theorems.                                                           *)

LEMMA StepIndInv == IndInv /\ [PesNext]_pesVars => IndInv'
<1> SUFFICES ASSUME IndInv, [PesNext]_pesVars PROVE IndInv'
  OBVIOUS
<1>1. CASE UNCHANGED pesVars
  <2>1. /\ sent' = sent /\ at' = at /\ lost' = lost /\ buf' = buf
        /\ collecting' = collecting /\ expected_len' = expected_len /\ out' = out
    BY <1>1 DEF pesVars, device, assembler
  <2>2. PesTypeOK' /\ DeviceInv'
    BY <2>1 DEF IndInv, PesTypeOK, DeviceInv, Last
  <2>3. OrderInv'
    BY <2>1 DEF IndInv, OrderInv, Left, Last, Unmixed, Ascending
  <2>4. CurrentInv'
    BY <2>1 DEF IndInv, CurrentInv, Last, HandedOn, Bytes
  <2>5. InOrder' /\ MixedOnlyIfStartLost'
    BY <2>1 DEF IndInv, InOrder, MixedOnlyIfStartLost, Ascending
  <2>6. DamageIsLocal'
    BY <2>1 DEF IndInv, DamageIsLocal, Intact, EndSeen, Last, Complete, Bytes
  <2> QED BY <2>2, <2>3, <2>4, <2>5, <2>6 DEF IndInv
<1>2. ASSUME NEW n \in Payload, NEW size \in PesSize, NEW says \in BOOLEAN,
             StartArrives(size, says, n) \/ StartLost(size, says, n)
      PROVE  IndInv'
  BY <1>2, StartArrivesKeeps, StartLostKeeps
<1>3. ASSUME NEW n \in Payload, MoreArrives(n) \/ MoreLost(n) PROVE IndInv'
  BY <1>3, MoreArrivesKeeps, MoreLostKeeps
<1> QED BY <1>1, <1>2, <1>3 DEF PesNext

(* The inductive invariant holds for every mix of sizes and losses.        *)
THEOREM AssemblerInvariant == PesSpec => []IndInv
BY InitIndInv, StepIndInv, PTL DEF PesSpec

(* The buffer never exceeds MAX_PES_SIZE.                                  *)
THEOREM AssemblerTypeCorrect == PesSpec => []PesTypeOK
<1>1. IndInv => PesTypeOK
  BY DEF IndInv
<1> QED BY <1>1, AssemblerInvariant, PTL

(* No audio byte is decoded twice or out of order, whatever is lost.       *)
THEOREM AudioInOrder == PesSpec => []InOrder
<1>1. IndInv => InOrder
  BY DEF IndInv
<1> QED BY <1>1, AssemblerInvariant, PTL

(* Two PES get mixed only if the start of the later one was lost.          *)
THEOREM MixingNeedsLostStart == PesSpec => []MixedOnlyIfStartLost
<1>1. IndInv => MixedOnlyIfStartLost
  BY DEF IndInv
<1> QED BY <1>1, AssemblerInvariant, PTL

(* A PES that arrived is decoded whole if the assembler could see its end. *)
THEOREM DamageStaysLocal == PesSpec => []DamageIsLocal
<1>1. IndInv => DamageIsLocal
  BY DEF IndInv
<1> QED BY <1>1, AssemblerInvariant, PTL

(* What any losses do to the audio is to take away the PES they hit.       *)
THEOREM DamageStaysContained == PesSpec => []DamageContained
BY AudioInOrder, MixingNeedsLostStart, DamageStaysLocal, PTL DEF DamageContained
=============================================================================
