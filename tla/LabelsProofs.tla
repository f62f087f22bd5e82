---------------------------- MODULE LabelsProofs ----------------------------
(***************************************************************************)
(* Proofs about what a listener is shown: the tag and the numbers in the   *)
(* header of a PES, the lineup of the device, and the metadata of the      *)
(* song; each for every value of its constants, and then the three         *)
(* together as they are checked.                                           *)
(***************************************************************************)
EXTENDS MCLabels, TLAPS, SequenceTheorems

-----------------------------------------------------------------------------
(* Tags and headers (module TimedMetadata).  No invariant is needed but    *)
(* where tag and PES come from; the proofs are about the arithmetic.       *)

(* The tag is the one of the text, and the PES one of those written.       *)
Texts == [title : Nat, artist : Nat, artwork : Nat]
TimedInv ==
    /\ text \in Texts /\ id3 = Tag(text)
    /\ \/ \E len \in Nat, pts \in SUBSET (0..63) : pes = AudioPes(len, pts)
       \/ \E t \in Texts, pts \in SUBSET (0..63) : pes = MetadataPes(Tag(t), pts)

-----------------------------------------------------------------------------
(* Numbers in digits.                                                      *)

LEMMA Bases ==
    /\ Base \in Nat /\ Base >= 2 /\ Base2 \in Nat /\ Base3 \in Nat /\ Base4 \in Nat
    /\ Base2 = Base * Base /\ Base3 = Base * Base2 /\ Base4 = Base * Base3
    /\ Base2 >= 1 /\ Base3 >= 1 /\ Base4 >= 1
<1>1. Base \in Nat /\ Base >= 2
  BY TimedAssumption
<1>2. ASSUME NEW a \in Nat, NEW b \in Nat, a >= 1, b >= 1
      PROVE  a * b \in Nat /\ a * b >= 1
  BY <1>2, Z3
<1>3. Base2 \in Nat /\ Base2 >= 1
  BY <1>1, <1>2 DEF Base2
<1>4. Base3 \in Nat /\ Base3 >= 1
  BY <1>1, <1>2, <1>3 DEF Base3
<1>5. Base4 \in Nat /\ Base4 >= 1
  BY <1>1, <1>2, <1>4 DEF Base4
<1> QED BY <1>1, <1>3, <1>4, <1>5 DEF Base2, Base3, Base4

LEMMA Remainder ==
    ASSUME NEW n \in Nat, NEW d \in Nat, d >= 1
    PROVE  /\ n \div d \in Nat /\ n % d \in 0..(d - 1) /\ n = d * (n \div d) + (n % d)
<1>1. n \in Int /\ d \in Int /\ d > 0
  OBVIOUS
<1>2. n = d * (n \div d) + (n % d)
  BY <1>1, Z3
<1>3. n % d \in 0..(d - 1)
  OBVIOUS
<1>4. n \div d \in Nat
  OBVIOUS
<1> QED BY <1>2, <1>3, <1>4

(* There is one quotient.                                                  *)
LEMMA OneQuotient ==
    ASSUME NEW n \in Nat, NEW d \in Nat, d >= 1, NEW k \in Nat, NEW r \in 0..(d - 1),
           n = d * k + r
    PROVE  n \div d = k /\ n % d = r
<1> DEFINE q == n \div d
           s == n % d
<1>1. q \in Nat /\ s \in 0..(d - 1) /\ n = d * q + s
  BY Remainder
<1> HIDE DEF q, s
<1>2. ASSUME NEW a \in Nat, NEW b \in Nat, a < b PROVE d * b >= d * a + d
  <2>1. PICK c \in Nat : b = a + 1 + c
    BY <1>2
  <2>2. d * (a + 1 + c) = d * a + d + d * c /\ d * c >= 0
    BY Z3
  <2>3. d * a \in Int /\ d * c \in Int
    OBVIOUS
  <2> QED BY <2>1, <2>2, <2>3, Z3
<1>3. d * q \in Int /\ d * k \in Int
  BY <1>1
<1>4. ~(q < k)
  <2> SUFFICES ASSUME q < k PROVE FALSE
    OBVIOUS
  <2>1. d * k >= d * q + d
    BY <1>1, <1>2
  <2> DEFINE x == d * k
             y == d * q
  <2>2. x \in Int /\ y \in Int /\ x >= y + d /\ x + r = y + s
    BY <1>1, <1>3, <2>1
  <2> HIDE DEF x, y
  <2> QED BY <1>1, <2>2
<1>5. ~(k < q)
  <2> SUFFICES ASSUME k < q PROVE FALSE
    OBVIOUS
  <2>1. d * q >= d * k + d
    BY <1>1, <1>2
  <2> DEFINE x == d * k
             y == d * q
  <2>2. x \in Int /\ y \in Int /\ y >= x + d /\ x + r = y + s
    BY <1>1, <1>3, <2>1
  <2> HIDE DEF x, y
  <2> QED BY <1>1, <2>2
<1>6. q = k
  BY <1>1, <1>4, <1>5
<1> QED BY <1>1, <1>3, <1>6 DEF q, s

(* A number with four digits is read as it was written.                    *)
LEMMA SyncsafeRead ==
    ASSUME NEW n \in Nat
    PROVE  /\ Syncsafe(n) \in Seq(0..(Base - 1))
           /\ n < Base4 => Number(Syncsafe(n)) = n
<1> DEFINE q1 == n \div Base
           r0 == n % Base
           q2 == q1 \div Base
           r1 == q1 % Base
           q3 == q2 \div Base
           r2 == q2 % Base
<1>b. /\ Base \in Nat /\ Base >= 2 /\ Base2 \in Nat /\ Base3 \in Nat /\ Base4 \in Nat
      /\ Base2 = Base * Base /\ Base3 = Base * Base2 /\ Base4 = Base * Base3
      /\ Base2 >= 1 /\ Base3 >= 1 /\ Base4 >= 1
  BY Bases
<1>r. ASSUME NEW m \in Nat
      PROVE  /\ m \div Base \in Nat /\ m % Base \in 0..(Base - 1)
             /\ m = Base * (m \div Base) + (m % Base)
  <2>1. Base \in Nat /\ Base >= 1
    BY <1>b
  <2> QED BY <2>1, Remainder
<1>1. q1 \in Nat /\ r0 \in 0..(Base - 1) /\ n = Base * q1 + r0
  BY <1>r
<1>2. q2 \in Nat /\ r1 \in 0..(Base - 1) /\ q1 = Base * q2 + r1
  <2> HIDE DEF q1
  <2> QED BY <1>1, <1>r
<1>3. q3 \in Nat /\ r2 \in 0..(Base - 1) /\ q2 = Base * q3 + r2
  <2> HIDE DEF q2
  <2> QED BY <1>2, <1>r
<1> HIDE DEF q1, q2, q3, r0, r1, r2
<1>p. \A a \in 0..(Base - 1) : Base * a \in Nat /\ Base * a <= Base2 - Base
  <2> SUFFICES ASSUME NEW a \in 0..(Base - 1) PROVE Base * a \in Nat /\ Base * a <= Base2 - Base
    OBVIOUS
  <2>1. a \in Nat /\ a <= Base - 1
    BY <1>b
  <2>2. Base * a <= Base * (Base - 1)
    BY <1>b, <2>1, Z3
  <2>3. Base * (Base - 1) = Base * Base - Base
    BY <1>b, Z3
  <2> QED BY <1>b, <2>1, <2>2, <2>3, Z3
<1>4. n \div Base2 = q2
  <2>1. n = Base2 * q2 + (Base * r1 + r0)
    <3>1. Base * (Base * q2 + r1) = Base * Base * q2 + Base * r1
      BY <1>b, <1>2, Z3
    <3> QED BY <1>b, <1>1, <1>2, <3>1, Z3
  <2>2. Base * r1 + r0 \in 0..(Base2 - 1)
    BY <1>b, <1>1, <1>2, <1>p
  <2> QED BY <1>b, <1>2, <2>1, <2>2, OneQuotient
<1>5. n \div Base3 = q3
  <2>1. n = Base3 * q3 + (Base2 * r2 + (Base * r1 + r0))
    <3>1. Base * (Base * (Base * q3 + r2) + r1)
              = Base * (Base * Base) * q3 + Base * Base * r2 + Base * r1
      BY <1>b, <1>2, <1>3, Z3
    <3> QED BY <1>b, <1>1, <1>2, <1>3, <3>1, Z3
  <2>2. Base2 * r2 \in Nat /\ Base2 * r2 <= Base3 - Base2
    <3>1. r2 \in Nat /\ r2 <= Base - 1
      BY <1>b, <1>3
    <3>2. Base2 * r2 <= Base2 * (Base - 1)
      BY <1>b, <3>1, Z3
    <3>3. Base2 * (Base - 1) = Base * Base2 - Base2
      BY <1>b, Z3
    <3> QED BY <1>b, <3>1, <3>2, <3>3, Z3
  <2>3. Base * r1 + r0 \in 0..(Base2 - 1)
    BY <1>b, <1>1, <1>2, <1>p
  <2> DEFINE x == Base2 * r2
             y == Base * r1 + r0
  <2>4. x \in Nat /\ x <= Base3 - Base2 /\ y \in 0..(Base2 - 1) /\ n = Base3 * q3 + (x + y)
    BY <2>1, <2>2, <2>3
  <2> HIDE DEF x, y
  <2>5. x + y \in 0..(Base3 - 1)
    BY <1>b, <2>4
  <2> QED BY <1>b, <1>3, <2>4, <2>5, OneQuotient
<1>6. q3 % Base \in 0..(Base - 1)
  BY <1>b, <1>3, Remainder
<1>7. Syncsafe(n) = <<q3 % Base, r2, r1, r0>>
  BY <1>4, <1>5 DEF Syncsafe, r0, r1, r2, q1
<1>8. Syncsafe(n) \in Seq(0..(Base - 1))
  <2> DEFINE d == q3 % Base
  <2>1. d \in 0..(Base - 1) /\ Syncsafe(n) = <<d, r2, r1, r0>>
    BY <1>6, <1>7
  <2> HIDE DEF d
  <2> DEFINE D == 0..(Base - 1)
  <2>2. d \in D /\ r2 \in D /\ r1 \in D /\ r0 \in D
    BY <1>1, <1>2, <1>3, <2>1
  <2> HIDE DEF D
  <2>3. <<d, r2, r1, r0>> \in Seq(D)
    BY <2>2
  <2> QED BY <2>1, <2>3 DEF D
<1>9. ASSUME n < Base4 PROVE Number(Syncsafe(n)) = n
  <2>1. q3 < Base
    <3> SUFFICES ASSUME q3 >= Base PROVE FALSE
      BY <1>b, <1>3
    <3>1. n >= Base3 * q3
      <4>1. n = Base3 * (n \div Base3) + (n % Base3) /\ n % Base3 \in 0..(Base3 - 1)
        BY <1>b, Remainder
      <4>2. Base3 * q3 \in Nat
        BY <1>b, <1>3
      <4> QED BY <1>b, <1>5, <4>1, <4>2
    <3>2. Base3 * q3 >= Base3 * Base
      BY <1>b, <1>3, Z3
    <3>3. Base3 * Base = Base * Base3
      BY <1>b, Z3
    <3>4. Base3 * q3 \in Nat /\ Base * Base3 \in Nat
      BY <1>b, <1>3
    <3> QED BY <1>9, <1>b, <3>1, <3>2, <3>3, <3>4
  <2>2. q3 % Base = q3
    BY <1>b, <1>3, <2>1
  <2>3. Syncsafe(n) = <<q3, r2, r1, r0>>
    BY <1>7, <2>2
  <2>4. Number(Syncsafe(n)) = q3 * Base3 + r2 * Base2 + r1 * Base + r0
    BY <2>3 DEF Number
  <2>5. n = q3 * (Base * (Base * Base)) + r2 * (Base * Base) + r1 * Base + r0
    <3>1. Base * (Base * (Base * q3 + r2) + r1)
              = q3 * (Base * (Base * Base)) + r2 * (Base * Base) + r1 * Base
      BY <1>b, <1>2, <1>3, Z3
    <3> QED BY <1>b, <1>1, <1>2, <1>3, <3>1, Z3
  <2> QED BY <1>b, <2>4, <2>5
<1> QED BY <1>8, <1>9

-----------------------------------------------------------------------------
(* The frames of a tag.                                                    *)

Ids == {"TIT2", "TPE1", "WXXX"}
Frames == {Frame(id, n) : id \in Ids, n \in Nat}

LEMMA FrameFields ==
    ASSUME NEW f \in Frames
    PROVE  /\ f.id \in Ids /\ f.bytes \in Nat /\ Header \in Nat /\ f.bytes >= Header
           /\ f.size = Syncsafe(f.bytes - Header) /\ f.bytes - Header \in Nat
<1>1. PICK id \in Ids, n \in Nat : f = Frame(id, n)
  BY DEF Frames
<1>2. f.id = id /\ f.size = Syncsafe(n) /\ f.bytes = Header + n
  BY <1>1 DEF Frame
<1>3. Header \in Nat
  BY TimedAssumption
<1>4. f.bytes - Header = n
  BY <1>2, <1>3
<1> QED BY <1>2, <1>3, <1>4

(* A list of frames of the fields in S, in their order.                    *)
Listed(fs, S) ==
    /\ fs \in Seq(Frames) /\ {fs[i].id : i \in 1..Len(fs)} = S
    /\ \A i, j \in 1..Len(fs) : i < j => Place(fs[i].id) < Place(fs[j].id)

(* One frame more, of a field that comes after all that are there.         *)
LEMMA Behind ==
    ASSUME NEW fs, NEW S, Listed(fs, S), NEW f \in Frames,
           \A id \in S : Place(id) < Place(f.id)
    PROVE  Listed(fs \o <<f>>, S \cup {f.id}) /\ Len(fs \o <<f>>) = Len(fs) + 1
<1> DEFINE h == <<f>>
           gs == fs \o h
<1>1. /\ fs \in Seq(Frames) /\ h \in Seq(Frames) /\ Len(h) = 1 /\ h[1] = f /\ Len(fs) \in Nat
      /\ {fs[i].id : i \in 1..Len(fs)} = S
  BY DEF Listed
<1> HIDE DEF h
<1>2. /\ fs \o h \in Seq(Frames) /\ Len(fs \o h) = Len(fs) + Len(h)
      /\ \A k \in 1..(Len(fs) + Len(h)) :
            (fs \o h)[k] = IF k <= Len(fs) THEN fs[k] ELSE h[k - Len(fs)]
  BY <1>1, ConcatProperties, Zenon
<1> HIDE DEF gs
<1>3. /\ gs \in Seq(Frames) /\ Len(gs) = Len(fs) + 1
      /\ \A k \in 1..(Len(fs) + 1) : gs[k] = IF k <= Len(fs) THEN fs[k] ELSE h[k - Len(fs)]
  BY <1>1, <1>2 DEF gs
<1>4. \A k \in 1..Len(fs) : k \in 1..(Len(fs) + 1) /\ k <= Len(fs)
  BY <1>1
<1>5. \A k \in 1..Len(fs) : gs[k] = fs[k]
  BY <1>3, <1>4
<1>6. gs[Len(fs) + 1] = f
  <2>1. Len(fs) + 1 \in 1..(Len(fs) + 1) /\ ~(Len(fs) + 1 <= Len(fs)) /\ (Len(fs) + 1) - Len(fs) = 1
    BY <1>1
  <2> QED BY <1>1, <1>3, <2>1
<1>7. 1..Len(gs) = (1..Len(fs)) \cup {Len(fs) + 1}
  BY <1>1, <1>3
<1>8. {gs[i].id : i \in 1..Len(gs)} = S \cup {f.id}
  BY <1>1, <1>5, <1>6, <1>7
<1>9. ASSUME NEW i \in 1..Len(gs), NEW j \in 1..Len(gs), i < j
      PROVE  Place(gs[i].id) < Place(gs[j].id)
  <2>1. i \in 1..Len(fs) /\ gs[i] = fs[i]
    BY <1>1, <1>3, <1>5, <1>9
  <2>2. CASE j \in 1..Len(fs)
    BY <1>5, <1>9, <2>1, <2>2 DEF Listed
  <2>3. CASE j = Len(fs) + 1
    <3>1. fs[i].id \in S
      BY <1>1, <2>1
    <3> QED BY <1>6, <2>1, <2>3, <3>1
  <2> QED BY <1>7, <2>2, <2>3
<1> QED BY <1>3, <1>8, <1>9 DEF Listed, gs, h

(* The frames of a tag are those of the fields given.                      *)
LEMMA TagFrames ==
    ASSUME NEW t \in Texts
    PROVE  Listed(Tag(t).frames, Given(t)) /\ Len(Tag(t).frames) <= 3
<1> DEFINE a == TextFrame("TIT2", t.title)
           b == TextFrame("TPE1", t.artist)
           c == UrlFrame(t.artwork)
           A == IF t.title = 0 THEN {} ELSE {"TIT2"}
           B == IF t.artist = 0 THEN {} ELSE {"TPE1"}
           C == IF t.artwork = 0 THEN {} ELSE {"WXXX"}
<1>1. /\ t.title \in Nat /\ t.artist \in Nat /\ t.artwork \in Nat /\ Description \in Nat
  BY TimedAssumption DEF Texts
<1>2. Place("TIT2") = 1 /\ Place("TPE1") = 2 /\ Place("WXXX") = 3
  BY DEF Place
<1>3. \A id \in Ids, n \in Nat : Frame(id, n) \in Frames /\ Frame(id, n).id = id
  BY DEF Frames, Frame
<1>4. \A s \in Seq(Frames) : s \o << >> = s
  BY ConcatEmptySeq
<1>e. Listed(<< >>, {})
  <2>1. << >> \in Seq(Frames) /\ 1..Len(<< >>) = {}
    OBVIOUS
  <2> QED BY <2>1 DEF Listed
<1>5. Listed(a, A) /\ Len(a) <= 1
  <2>1. CASE t.title = 0
    <3>1. a = << >> /\ A = {} /\ Len(<< >>) <= 1
      BY <2>1 DEF TextFrame
    <3> QED BY <1>e, <3>1
  <2>2. CASE t.title # 0
    <3> DEFINE f == Frame("TIT2", 1 + t.title)
    <3>1. f \in Frames /\ f.id = "TIT2"
      BY <1>1, <1>3 DEF Ids
    <3>2. a = <<f>> /\ A = {"TIT2"}
      BY <2>2 DEF TextFrame
    <3> HIDE DEF f
    <3>3. Listed(<< >> \o <<f>>, {} \cup {f.id})
      BY <1>e, <3>1, Behind
    <3>4. << >> \o <<f>> = <<f>> /\ Len(<<f>>) <= 1
      OBVIOUS
    <3> QED BY <3>1, <3>2, <3>3, <3>4
  <2> QED BY <2>1, <2>2
<1>6. Listed(a \o b, A \cup B) /\ Len(a \o b) <= 2
  <2>0. a \in Seq(Frames) /\ Len(a) \in Nat
    BY <1>5 DEF Listed
  <2>1. CASE t.artist = 0
    <3>1. b = << >> /\ B = {}
      BY <2>1 DEF TextFrame
    <3> HIDE DEF a, b, A, B
    <3> QED BY <1>4, <1>5, <2>0, <3>1
  <2>2. CASE t.artist # 0
    <3> DEFINE f == Frame("TPE1", 1 + t.artist)
    <3>1. f \in Frames /\ f.id = "TPE1"
      BY <1>1, <1>3 DEF Ids
    <3>2. b = <<f>> /\ B = {"TPE1"}
      BY <2>2 DEF TextFrame
    <3>3. \A id \in A : Place(id) < Place("TPE1")
      BY <1>2
    <3> HIDE DEF f, a, b, A, B
    <3>4. Listed(a \o <<f>>, A \cup {f.id}) /\ Len(a \o <<f>>) = Len(a) + 1
      BY <1>5, <3>1, <3>3, Behind
    <3> QED BY <1>5, <2>0, <3>1, <3>2, <3>4
  <2> QED BY <2>1, <2>2
<1>7. Listed(a \o b \o c, A \cup B \cup C) /\ Len(a \o b \o c) <= 3
  <2> DEFINE ab == a \o b
             AB == A \cup B
  <2>0. ab \in Seq(Frames) /\ Len(ab) \in Nat
    BY <1>6 DEF Listed
  <2>1. CASE t.artwork = 0
    <3>1. c = << >> /\ C = {}
      BY <2>1 DEF UrlFrame
    <3>2. Listed(ab, AB) /\ Len(ab) <= 2
      BY <1>6
    <3> HIDE DEF ab, c, AB, C
    <3>3. Listed(ab \o c, AB \cup C) /\ Len(ab \o c) <= 3
      BY <1>4, <2>0, <3>1, <3>2
    <3> QED BY <3>3 DEF ab, AB
  <2>2. CASE t.artwork # 0
    <3> DEFINE f == Frame("WXXX", 1 + Description + 1 + t.artwork)
    <3>1. f \in Frames /\ f.id = "WXXX"
      BY <1>1, <1>3 DEF Ids
    <3>2. c = <<f>> /\ C = {"WXXX"}
      BY <2>2 DEF UrlFrame
    <3>3. \A id \in AB : Place(id) < Place("WXXX")
      BY <1>2
    <3>4. Listed(ab, AB) /\ Len(ab) <= 2
      BY <1>6
    <3> HIDE DEF f, ab, c, AB, C
    <3>5. Listed(ab \o <<f>>, AB \cup {f.id}) /\ Len(ab \o <<f>>) = Len(ab) + 1
      BY <3>1, <3>3, <3>4, Behind
    <3>6. Listed(ab \o c, AB \cup C) /\ Len(ab \o c) <= 3
      BY <2>0, <3>1, <3>2, <3>4, <3>5
    <3> QED BY <3>6 DEF ab, AB
  <2> QED BY <2>1, <2>2
<1>8. A \cup B \cup C = Given(t)
  <2>1. \A id : id \in Given(t) <=> \/ id = "TIT2" /\ t.title > 0
                                    \/ id = "TPE1" /\ t.artist > 0
                                    \/ id = "WXXX" /\ t.artwork > 0
    BY DEF Given
  <2>2. /\ t.title = 0 <=> ~(t.title > 0)
        /\ t.artist = 0 <=> ~(t.artist > 0)
        /\ t.artwork = 0 <=> ~(t.artwork > 0)
    BY <1>1
  <2>3. \A id : id \in A <=> id = "TIT2" /\ t.title > 0
    BY <2>2, Zenon
  <2>4. \A id : id \in B <=> id = "TPE1" /\ t.artist > 0
    BY <2>2, Zenon
  <2>5. \A id : id \in C <=> id = "WXXX" /\ t.artwork > 0
    BY <2>2, Zenon
  <2> HIDE DEF A, B, C
  <2> QED BY <2>1, <2>3, <2>4, <2>5, Zenon
<1>9. Tag(t).frames = a \o b \o c
  BY DEF Tag
<1> QED BY <1>7, <1>8, <1>9


-----------------------------------------------------------------------------
(* Sums of at most three numbers: the recursive functions of Bytes and of  *)
(* the receiver's walk.                                                    *)

Sum3(c, k) ==
    IF k = 0 THEN 0 ELSE IF k = 1 THEN c[1] ELSE IF k = 2 THEN c[1] + c[2]
    ELSE c[1] + c[2] + c[3]

LEMMA SumStep ==
    ASSUME NEW n \in 0..3, NEW c \in [1..n -> Nat], NEW k \in 1..n
    PROVE  Sum3(c, k) = Sum3(c, k - 1) + c[k] /\ Sum3(c, k) \in Nat /\ Sum3(c, k - 1) \in Nat
<1>1. \A j \in 1..n : c[j] \in Nat
  OBVIOUS
<1>2. CASE k = 1
  BY <1>1, <1>2 DEF Sum3
<1>3. CASE k = 2
  <2>1. c[1] \in Nat /\ c[2] \in Nat
    BY <1>1, <1>3
  <2> QED BY <1>3, <2>1 DEF Sum3
<1>4. CASE k = 3
  <2>1. c[1] \in Nat /\ c[2] \in Nat /\ c[3] \in Nat
    BY <1>1, <1>4
  <2> QED BY <1>4, <2>1 DEF Sum3
<1> QED BY <1>2, <1>3, <1>4

LEMMA SumIs ==
    ASSUME NEW n \in 0..3, NEW c \in [1..n -> Nat], NEW g, g[0] = 0,
           \A k \in 1..n : g[k] = g[k - 1] + c[k]
    PROVE  \A k \in 0..n : g[k] = Sum3(c, k)
<1>0. g[0] = Sum3(c, 0)
  BY DEF Sum3
<1>1. ASSUME NEW k \in 1..n, g[k - 1] = Sum3(c, k - 1) PROVE g[k] = Sum3(c, k)
  BY <1>1, SumStep
<1>2. 1 <= n => g[1] = Sum3(c, 1)
  BY <1>0, <1>1
<1>3. 2 <= n => g[2] = Sum3(c, 2)
  BY <1>1, <1>2
<1>4. 3 <= n => g[3] = Sum3(c, 3)
  BY <1>1, <1>3
<1> SUFFICES ASSUME NEW k \in 0..n PROVE g[k] = Sum3(c, k)
  OBVIOUS
<1>5. CASE k = 0
  BY <1>0, <1>5
<1>6. CASE k = 1
  BY <1>2, <1>6
<1>7. CASE k = 2
  BY <1>3, <1>7
<1>8. CASE k = 3
  BY <1>4, <1>8
<1> QED BY <1>5, <1>6, <1>7, <1>8

LEMMA BytesIs ==
    ASSUME NEW fs \in Seq(Frames), Len(fs) <= 3, NEW i \in 0..Len(fs)
    PROVE  Bytes(fs, i) = Sum3([k \in 1..Len(fs) |-> fs[k].bytes], i)
<1> DEFINE n == Len(fs)
           c == [k \in 1..n |-> fs[k].bytes]
           d == [k \in 1..i |-> fs[k].bytes]
           Body(g) == [k \in 0..i |-> IF k = 0 THEN 0 ELSE g[k - 1] + fs[k].bytes]
           sum == CHOOSE g : g = Body(g)
<1>a. n \in 0..3 /\ i \in 0..3 /\ i \in Nat /\ i <= n
  <2>1. n \in Nat /\ n <= 3 /\ i \in 0..n
    BY LenProperties
  <2> HIDE DEF n
  <2> QED BY <2>1
<1>b. ASSUME NEW k \in 1..n PROVE fs[k] \in Frames
  OBVIOUS
<1>c. \A k \in 1..n : fs[k].bytes \in Nat
  <2> HIDE DEF n
  <2> QED BY <1>b, FrameFields
<1>0. n \in 0..3 /\ i \in 0..3 /\ i <= n /\ \A k \in 1..n : fs[k].bytes \in Nat
  BY <1>a, <1>c
<1>1. Bytes(fs, i) = sum[i]
  BY DEF Bytes
<1>2. d \in [1..i -> Nat] /\ \A k \in 1..i : d[k] = fs[k].bytes /\ d[k] = c[k]
  BY <1>0
<1>3. \E g : g = Body(g)
  <2> DEFINE e == [k \in 0..i |-> Sum3(d, k)]
  <2>1. ASSUME NEW k \in 0..i PROVE e[k] = Body(e)[k]
    <3>1. CASE k = 0
      BY <3>1 DEF Sum3
    <3>2. CASE k # 0
      <4>1. k \in 1..i /\ k - 1 \in 0..i
        BY <1>0, <3>2
      <4> HIDE DEF d
      <4>2. e[k] = Sum3(d, k) /\ e[k - 1] = Sum3(d, k - 1)
        BY <4>1
      <4>3. Sum3(d, k) = Sum3(d, k - 1) + d[k]
        BY <1>0, <1>2, <4>1, SumStep
      <4>4. Body(e)[k] = e[k - 1] + fs[k].bytes
        <5> HIDE DEF e
        <5> QED BY <3>2
      <4> QED BY <1>2, <4>1, <4>2, <4>3, <4>4
    <3> QED BY <3>1, <3>2
  <2>2. e = Body(e)
    <3>1. Body(e) = [k \in 0..i |-> Body(e)[k]] /\ e = [k \in 0..i |-> e[k]]
      OBVIOUS
    <3> HIDE DEF Body, e
    <3> QED BY <2>1, <3>1
  <2> QED BY <2>2
<1>4. sum = Body(sum)
  <2> HIDE DEF Body
  <2> QED BY <1>3
<1>5. sum[0] = 0 /\ \A k \in 1..i : sum[k] = sum[k - 1] + d[k]
  <2>1. ASSUME NEW k \in 0..i PROVE Body(sum)[k] = IF k = 0 THEN 0 ELSE sum[k - 1] + fs[k].bytes
    <3> HIDE DEF sum
    <3> QED OBVIOUS
  <2>2. \A k \in 0..i : sum[k] = IF k = 0 THEN 0 ELSE sum[k - 1] + fs[k].bytes
    <3> HIDE DEF sum, Body
    <3> QED BY <1>4, <2>1
  <2> HIDE DEF sum, Body, d
  <2>3. 0 \in 0..i /\ \A k \in 1..i : k \in 0..i /\ k # 0
    BY <1>0
  <2>4. sum[0] = 0
    BY <2>2, <2>3
  <2>5. ASSUME NEW k \in 1..i PROVE sum[k] = sum[k - 1] + d[k]
    <3>1. k \in 0..i /\ k # 0 /\ d[k] = fs[k].bytes
      BY <1>2, <2>3
    <3> QED BY <2>2, <3>1
  <2> QED BY <2>4, <2>5
<1> HIDE DEF sum, Body, d, c
<1>6. sum[i] = Sum3(d, i)
  <2>1. i \in 0..3 /\ i \in 0..i /\ d \in [1..i -> Nat]
    BY <1>0, <1>2
  <2>2. \A k \in 0..i : sum[k] = Sum3(d, k)
    BY <1>5, <2>1, SumIs
  <2> QED BY <2>1, <2>2
<1>7. Sum3(d, i) = Sum3(c, i)
  <2>1. CASE i = 0
    BY <2>1 DEF Sum3
  <2>2. CASE i = 1
    BY <1>2, <2>2 DEF Sum3
  <2>3. CASE i = 2
    BY <1>2, <2>3 DEF Sum3
  <2>4. CASE i = 3
    BY <1>2, <2>4 DEF Sum3
  <2> QED BY <1>0, <2>1, <2>2, <2>3, <2>4
<1> QED BY <1>1, <1>6, <1>7 DEF c

(* The bytes of a list of frames grow by each frame's.                     *)
LEMMA BytesGrow ==
    ASSUME NEW fs \in Seq(Frames), Len(fs) <= 3
    PROVE  /\ Bytes(fs, 0) = 0 /\ Bytes(fs, Len(fs)) \in Nat
           /\ \A i \in 1..Len(fs) : /\ Bytes(fs, i) = Bytes(fs, i - 1) + fs[i].bytes
                                    /\ Bytes(fs, i) \in Nat /\ fs[i].bytes <= Bytes(fs, Len(fs))
<1> DEFINE n == Len(fs)
           c == [k \in 1..n |-> fs[k].bytes]
<1>a. n \in 0..3
  <2>1. n \in Nat /\ n <= 3
    BY LenProperties
  <2> HIDE DEF n
  <2> QED BY <2>1
<1>b. ASSUME NEW k \in 1..n PROVE fs[k] \in Frames
  OBVIOUS
<1>c. \A k \in 1..n : fs[k].bytes \in Nat
  <2> HIDE DEF n
  <2> QED BY <1>b, FrameFields
<1>0. n \in 0..3 /\ c \in [1..n -> Nat] /\ \A k \in 1..n : c[k] = fs[k].bytes /\ c[k] \in Nat
  BY <1>a, <1>c
<1>1. \A i \in 0..n : Bytes(fs, i) = Sum3(c, i)
  BY BytesIs
<1> HIDE DEF c, n
<1>2. ASSUME NEW i \in 1..n
      PROVE  Bytes(fs, i) = Bytes(fs, i - 1) + fs[i].bytes /\ Bytes(fs, i) \in Nat
  <2>1. i \in 0..n /\ i - 1 \in 0..n
    BY <1>0
  <2>2. Sum3(c, i) = Sum3(c, i - 1) + c[i] /\ Sum3(c, i) \in Nat
    BY <1>0, SumStep
  <2> QED BY <1>0, <1>1, <2>1, <2>2
<1>3. 0 \in 0..n /\ n \in 0..n
  BY <1>0
<1>4. Bytes(fs, 0) = 0
  BY <1>1, <1>3 DEF Sum3
<1>5. Bytes(fs, n) \in Nat
  BY <1>0, <1>2, <1>4
<1>6. ASSUME NEW i \in 1..n PROVE c[i] <= Sum3(c, n)
  <2>1. CASE n = 1
    BY <1>0, <2>1 DEF Sum3
  <2>2. CASE n = 2
    <3>1. c[1] \in Nat /\ c[2] \in Nat
      BY <1>0, <2>2
    <3>2. Sum3(c, n) = c[1] + c[2]
      BY <2>2 DEF Sum3
    <3>3. i = 1 \/ i = 2
      BY <2>2
    <3> QED BY <3>1, <3>2, <3>3
  <2>3. CASE n = 3
    <3>1. c[1] \in Nat /\ c[2] \in Nat /\ c[3] \in Nat
      BY <1>0, <2>3
    <3>2. Sum3(c, n) = c[1] + c[2] + c[3]
      BY <2>3 DEF Sum3
    <3>3. i = 1 \/ i = 2 \/ i = 3
      BY <2>3
    <3> QED BY <3>1, <3>2, <3>3
  <2> QED BY <1>0, <2>1, <2>2, <2>3
<1> QED BY <1>0, <1>1, <1>2, <1>3, <1>4, <1>5, <1>6 DEF n

-----------------------------------------------------------------------------
(* The invariant.                                                          *)

(* What a tag consists of.                                                 *)
LEMMA TagIs ==
    ASSUME NEW t \in Texts
    PROVE  /\ Listed(Tag(t).frames, Given(t)) /\ Len(Tag(t).frames) \in 0..3
           /\ Tag(t).frames \in Seq(Frames)
           /\ Tag(t).size = Syncsafe(Bytes(Tag(t).frames, Len(Tag(t).frames)))
           /\ Bytes(Tag(t).frames, Len(Tag(t).frames)) \in Nat
<1>1. Listed(Tag(t).frames, Given(t)) /\ Len(Tag(t).frames) <= 3
  BY TagFrames
<1>2. Tag(t).frames \in Seq(Frames)
  BY <1>1 DEF Listed
<1> DEFINE fs == Tag(t).frames
<1>3. Len(fs) \in Nat
  BY <1>2, LenProperties
<1>4. Tag(t).size = Syncsafe(Bytes(fs, Len(fs)))
  BY DEF Tag
<1> HIDE DEF fs
<1>5. fs \in Seq(Frames) /\ Len(fs) <= 3 /\ Len(fs) \in Nat
  BY <1>1, <1>2, <1>3 DEF fs
<1>6. Bytes(fs, Len(fs)) \in Nat
  BY <1>5, BytesGrow
<1>7. Len(fs) \in 0..3
  <2> DEFINE k == Len(fs)
  <2>1. k \in Nat /\ k <= 3
    BY <1>5
  <2> HIDE DEF k
  <2>2. k \in 0..3
    BY <2>1
  <2> QED BY <2>2 DEF k
<1> QED BY <1>1, <1>2, <1>4, <1>6, <1>7 DEF fs

LEMMA TimedInitInv == TimedInit => TimedInv
<1> SUFFICES ASSUME TimedInit PROVE TimedInv
  OBVIOUS
<1>1. NoText \in Texts
  BY DEF NoText, Texts
<1>2. PICK len \in AacLengths : pes = AudioPes(len, {})
  BY DEF TimedInit
<1>3. len \in Nat /\ {} \in SUBSET (0..63)
  BY TimedAssumption
<1> QED BY <1>1, <1>2, <1>3 DEF TimedInit, TimedInv

LEMMA TimedStepInv == TimedInv /\ [TimedNext]_timedVars => TimedInv'
<1> SUFFICES ASSUME TimedInv, [TimedNext]_timedVars PROVE TimedInv'
  OBVIOUS
<1>0. TextLengths \subseteq Nat /\ AacLengths \subseteq Nat /\ Stamps \subseteq SUBSET (0..63)
  BY TimedAssumption
<1>1. CASE SetId3
  <2>1. text' \in Texts
    BY <1>0, <1>1 DEF SetId3, Texts
  <2> QED BY <1>1, <2>1 DEF SetId3, TimedInv
<1>2. CASE WriteAudio
  <2>1. PICK len \in AacLengths, pts \in Stamps : pes' = AudioPes(len, pts)
    BY <1>2 DEF WriteAudio
  <2>2. len \in Nat /\ pts \in SUBSET (0..63)
    BY <1>0
  <2> QED BY <1>2, <2>1, <2>2 DEF WriteAudio, TimedInv
<1>3. CASE WriteMetadata
  <2>1. PICK pts \in Stamps : pes' = MetadataPes(id3, pts)
    BY <1>3 DEF WriteMetadata
  <2>2. pts \in SUBSET (0..63) /\ text \in Texts /\ id3 = Tag(text)
    BY <1>0 DEF TimedInv
  <2> QED BY <1>3, <2>1, <2>2 DEF WriteMetadata, TimedInv
<1>4. CASE UNCHANGED timedVars
  BY <1>4 DEF timedVars, TimedInv
<1> QED BY <1>1, <1>2, <1>3, <1>4 DEF TimedNext

(* The tag is that of the text, and a PES is one of those that are made.   *)
THEOREM TimedInvariant == TimedSpec => []TimedInv
BY TimedInitInv, TimedStepInv, PTL DEF TimedSpec

-----------------------------------------------------------------------------
(* Types.                                                                  *)

LEMMA TimedTyped == TimedInv => TimedTypeOK
<1> SUFFICES ASSUME TimedInv PROVE TimedTypeOK
  OBVIOUS
<1> DEFINE fs == id3.frames
<1>1. text \in Texts /\ id3 = Tag(text)
  BY DEF TimedInv
<1>2. /\ fs \in Seq(Frames) /\ id3.size = Syncsafe(Bytes(fs, Len(fs)))
      /\ Bytes(fs, Len(fs)) \in Nat
  BY <1>1, TagIs
<1>3. id3.size \in Seq(0..(Base - 1))
  <2> DEFINE n == Bytes(fs, Len(fs))
  <2>1. n \in Nat /\ id3.size = Syncsafe(n)
    BY <1>2
  <2> HIDE DEF n
  <2> QED BY <2>1, SyncsafeRead
<1>4. ASSUME NEW i \in DOMAIN fs PROVE fs[i].size \in Seq(0..(Base - 1))
  <2> HIDE DEF fs
  <2>1. fs[i] \in Frames
    BY <1>2
  <2> DEFINE f == fs[i]
             n == f.bytes - Header
  <2>2. n \in Nat /\ f.size = Syncsafe(n)
    BY <2>1, FrameFields
  <2> HIDE DEF n
  <2> QED BY <2>2, SyncsafeRead
<1>5. LengthMod \in Nat /\ LengthMod >= 1
  BY TimedAssumption
<1>6. pes.length \in 0..(LengthMod - 1)
  <2>1. CASE \E len \in Nat, pts \in SUBSET (0..63) : pes = AudioPes(len, pts)
    <3>1. PICK len \in Nat, pts \in SUBSET (0..63) : pes = AudioPes(len, pts)
      BY <2>1
    <3>2. pes.length = IF Rest(len) < LengthMod THEN Rest(len) ELSE 0
      BY <3>1 DEF AudioPes
    <3>3. Rest(len) \in Nat
      BY DEF Rest
    <3> QED BY <1>5, <3>2, <3>3
  <2>2. CASE \E t \in Texts, pts \in SUBSET (0..63) : pes = MetadataPes(Tag(t), pts)
    <3>1. PICK t \in Texts, pts \in SUBSET (0..63) : pes = MetadataPes(Tag(t), pts)
      BY <2>2
    <3> DEFINE r == Rest(TagBytes(Tag(t)))
    <3>2. pes.length = r % LengthMod
      BY <3>1 DEF MetadataPes
    <3>3. Bytes(Tag(t).frames, Len(Tag(t).frames)) \in Nat /\ Header \in Nat
      BY TagIs, TimedAssumption
    <3>4. r \in Nat
      BY <3>3 DEF Rest, TagBytes
    <3> HIDE DEF r
    <3> QED BY <1>5, <3>2, <3>4, Remainder
  <2> QED BY <2>1, <2>2 DEF TimedInv
<1> QED BY <1>1, <1>3, <1>4, <1>6 DEF TimedTypeOK, Texts

-----------------------------------------------------------------------------
(* The receiver's walk.                                                    *)

LEMMA FoundByWalk == TimedInv => FramesFound
<1> SUFFICES ASSUME TimedInv PROVE FramesFound
  OBVIOUS
<1> DEFINE fs == id3.frames
           n == Len(fs)
           Body(g) == [i \in 0..n |-> IF i = 0 THEN 0
                                      ELSE g[i - 1] + Header + Number(fs[i].size)]
           walk == CHOOSE g : g = Body(g)
<1>1. text \in Texts /\ id3 = Tag(text)
  BY DEF TimedInv
<1>2. /\ fs \in Seq(Frames) /\ id3.size = Syncsafe(Bytes(fs, n)) /\ n \in 0..3
      /\ Bytes(fs, n) \in Nat /\ Listed(fs, Given(text))
  BY <1>1, TagIs
<1>3. SUFFICES ASSUME Bytes(fs, n) < Base4
               PROVE  /\ \A i \in 0..n : walk[i] = Bytes(fs, i)
                      /\ Number(id3.size) = walk[n]
  BY <1>2 DEF FramesFound, Listed
<1> HIDE DEF fs
<1>4. /\ Bytes(fs, 0) = 0 /\ \A i \in 1..n : /\ Bytes(fs, i) = Bytes(fs, i - 1) + fs[i].bytes
                                            /\ Bytes(fs, i) \in Nat
                                            /\ fs[i].bytes <= Bytes(fs, n)
  <2>1. n \in 0..3
    BY <1>2
  <2>2. n <= 3
    <3> HIDE DEF n
    <3> QED BY <2>1
  <2> QED BY <1>2, <2>2, BytesGrow
<1>5. \A i \in 1..n : fs[i] \in Frames
  BY <1>2
<1> HIDE DEF n
<1>6. ASSUME NEW i \in 1..n
      PROVE  Header + Number(fs[i].size) = fs[i].bytes /\ Number(fs[i].size) \in Nat
  <2> DEFINE f == fs[i]
             m == f.bytes - Header
  <2>1. /\ f.bytes \in Nat /\ Header \in Nat /\ f.size = Syncsafe(m) /\ m \in Nat
        /\ f.bytes <= Bytes(fs, n)
    BY <1>4, <1>5, FrameFields
  <2>2. m < Base4
    BY <1>2, <1>3, <2>1, Bases
  <2> HIDE DEF f
  <2>3. Number(f.size) = m
    <3> HIDE DEF m
    <3> QED BY <2>1, <2>2, SyncsafeRead
  <2>4. Header + m = f.bytes
    BY <2>1
  <2> QED BY <2>1, <2>3, <2>4 DEF f
<1>7. Header \in Nat /\ \A i \in 0..n : Bytes(fs, i) \in Nat
  <2>1. ASSUME NEW i \in 0..n PROVE Bytes(fs, i) \in Nat
    <3>1. i = 0 \/ i \in 1..n
      BY <1>2
    <3> QED BY <1>4, <3>1
  <2> QED BY <2>1, TimedAssumption
<1>8. ASSUME NEW i \in 1..n
      PROVE  /\ i - 1 \in 0..n /\ i \in 0..n /\ i # 0
             /\ Bytes(fs, i - 1) + Header + Number(fs[i].size) = Bytes(fs, i)
  <2>1. i - 1 \in 0..n /\ i \in 0..n /\ i # 0
    BY <1>2
  <2> DEFINE x == Bytes(fs, i - 1)
             y == Number(fs[i].size)
             z == fs[i].bytes
  <2>2. x \in Nat /\ y \in Nat /\ Header \in Nat /\ Header + y = z /\ Bytes(fs, i) = x + z
    BY <1>4, <1>6, <1>7, <2>1
  <2> HIDE DEF x, y, z
  <2>3. x + Header + y = Bytes(fs, i)
    BY <2>2
  <2> QED BY <2>1, <2>3 DEF x, y
<1>9. \E g : g = Body(g)
  <2> DEFINE e == [i \in 0..n |-> Bytes(fs, i)]
  <2>1. ASSUME NEW i \in 0..n PROVE e[i] = Body(e)[i]
    <3>1. CASE i = 0
      BY <1>4, <3>1
    <3>2. CASE i # 0
      <4>1. i \in 1..n
        BY <1>2, <3>2
      <4>2. e[i] = Bytes(fs, i) /\ e[i - 1] = Bytes(fs, i - 1)
        BY <1>8, <4>1
      <4> HIDE DEF e
      <4>3. Body(e)[i] = e[i - 1] + Header + Number(fs[i].size)
        BY <3>2
      <4> HIDE DEF Body
      <4> QED BY <1>8, <4>1, <4>2, <4>3
    <3> QED BY <3>1, <3>2
  <2>2. e = Body(e)
    <3>1. Body(e) = [i \in 0..n |-> Body(e)[i]] /\ e = [i \in 0..n |-> e[i]]
      OBVIOUS
    <3> HIDE DEF Body, e
    <3> QED BY <2>1, <3>1
  <2> QED BY <2>2
<1>10. walk = Body(walk)
  <2> HIDE DEF Body
  <2> QED BY <1>9
<1>11. \A i \in 0..n : walk[i] = IF i = 0 THEN 0 ELSE walk[i - 1] + Header + Number(fs[i].size)
  <2>1. ASSUME NEW i \in 0..n
        PROVE  Body(walk)[i] = IF i = 0 THEN 0 ELSE walk[i - 1] + Header + Number(fs[i].size)
    <3> HIDE DEF walk
    <3> QED OBVIOUS
  <2> HIDE DEF walk, Body
  <2> QED BY <1>10, <2>1
<1> HIDE DEF walk, Body
<1>12. walk[0] = Bytes(fs, 0) /\ 0 \in 0..n /\ n \in 0..n
  <2>1. 0 \in 0..n /\ n \in 0..n
    BY <1>2
  <2> QED BY <1>4, <1>11, <2>1
<1>13. ASSUME NEW i \in 1..n, walk[i - 1] = Bytes(fs, i - 1) PROVE walk[i] = Bytes(fs, i)
  BY <1>8, <1>11, <1>13
<1>14. n >= 1 => walk[1] = Bytes(fs, 1)
  BY <1>2, <1>12, <1>13
<1>15. n >= 2 => walk[2] = Bytes(fs, 2)
  BY <1>2, <1>13, <1>14
<1>16. n >= 3 => walk[3] = Bytes(fs, 3)
  BY <1>2, <1>13, <1>15
<1>17. ASSUME NEW i \in 0..n PROVE walk[i] = Bytes(fs, i)
  <2>1. CASE i = 0
    BY <1>12, <2>1
  <2>2. CASE i = 1
    BY <1>2, <1>14, <2>2
  <2>3. CASE i = 2
    BY <1>2, <1>15, <2>3
  <2>4. CASE i = 3
    BY <1>2, <1>16, <2>4
  <2> QED BY <1>2, <2>1, <2>2, <2>3, <2>4
<1>18. Number(id3.size) = walk[n]
  <2> DEFINE m == Bytes(fs, n)
  <2>1. m \in Nat /\ m < Base4 /\ id3.size = Syncsafe(m) /\ walk[n] = m
    BY <1>2, <1>3, <1>12, <1>17
  <2> HIDE DEF m
  <2> QED BY <2>1, SyncsafeRead
<1> QED BY <1>17, <1>18

-----------------------------------------------------------------------------
(* Bits.                                                                   *)

LEMMA Shifts ==
    ASSUME NEW S \in SUBSET Nat, NEW n \in Nat, NEW x
    PROVE  /\ x \in Shl(S, n) <=> x \in Nat /\ x >= n /\ x - n \in S
           /\ x \in Shr(S, n) <=> x \in Nat /\ x + n \in S
<1>1. ASSUME x \in Shl(S, n) PROVE x \in Nat /\ x >= n /\ x - n \in S
  <2>1. PICK b \in S : x = b + n
    BY <1>1 DEF Shl
  <2>2. b \in Nat /\ x - n = b
    BY <2>1
  <2> QED BY <2>1, <2>2
<1>2. ASSUME x \in Nat, x >= n, x - n \in S PROVE x \in Shl(S, n)
  <2>1. x = (x - n) + n
    BY <1>2
  <2> QED BY <1>2, <2>1 DEF Shl
<1>3. ASSUME x \in Shr(S, n) PROVE x \in Nat /\ x + n \in S
  <2>1. PICK b \in S : b >= n /\ x = b - n
    BY <1>3 DEF Shr
  <2>2. b \in Nat /\ x + n = b
    BY <2>1
  <2> QED BY <2>1, <2>2
<1>4. ASSUME x \in Nat, x + n \in S PROVE x \in Shr(S, n)
  <2>1. x + n >= n /\ x = (x + n) - n
    BY <1>4
  <2> QED BY <1>4, <2>1 DEF Shr
<1> QED BY <1>1, <1>2, <1>3, <1>4

LEMMA Shifted ==
    ASSUME NEW S \in SUBSET Nat, NEW n \in Nat
    PROVE  Shl(S, n) \in SUBSET Nat /\ Shr(S, n) \in SUBSET Nat
BY Shifts

(* A group of bits, taken out and put back where it was.                   *)
LEMMA Group ==
    ASSUME NEW S \in SUBSET Nat, NEW n \in Nat, NEW a \in Nat, NEW b \in Nat, NEW x
    PROVE  x \in Shl(Shr(S, n) \cap (a..b), n) <=> x \in S /\ x >= n + a /\ x <= n + b
<1> DEFINE T == Shr(S, n) \cap (a..b)
<1>1. T \in SUBSET Nat
  OBVIOUS
<1>2. x \in Shl(T, n) <=> x \in Nat /\ x >= n /\ x - n \in T
  <2> HIDE DEF T
  <2> QED BY <1>1, Shifts
<1>3. x \in Nat /\ x >= n => (x - n \in Shr(S, n) <=> x \in S)
  <2> SUFFICES ASSUME x \in Nat, x >= n PROVE x - n \in Shr(S, n) <=> x \in S
    OBVIOUS
  <2>1. x - n \in Nat /\ (x - n) + n = x
    OBVIOUS
  <2> DEFINE y == x - n
  <2>2. y \in Nat /\ y + n = x
    BY <2>1
  <2> HIDE DEF y
  <2>3. y \in Shr(S, n) <=> y \in Nat /\ y + n \in S
    BY Shifts
  <2> QED BY <2>2, <2>3 DEF y
<1>4. x \in S => x \in Nat
  OBVIOUS
<1> HIDE DEF T
<1>5. ASSUME x \in Shl(T, n) PROVE x \in S /\ x >= n + a /\ x <= n + b
  BY <1>2, <1>3, <1>5 DEF T
<1>6. ASSUME x \in S, x >= n + a, x <= n + b PROVE x \in Shl(T, n)
  <2>1. x \in Nat /\ x >= n /\ x - n \in a..b
    BY <1>4, <1>6
  <2> QED BY <1>2, <1>3, <1>6, <2>1 DEF T
<1> QED BY <1>5, <1>6 DEF T

LEMMA StampOf ==
    TimedInv => /\ pes.stamp \in SUBSET (0..63) /\ pes.pts = EncodePts(pes.stamp)
                /\ LengthTrue
<1> SUFFICES ASSUME TimedInv
             PROVE  /\ pes.stamp \in SUBSET (0..63) /\ pes.pts = EncodePts(pes.stamp)
                    /\ LengthTrue
  OBVIOUS
<1>0. LengthMod \in Nat /\ LengthMod >= 1
  BY TimedAssumption
<1>1. CASE \E len \in Nat, pts \in SUBSET (0..63) : pes = AudioPes(len, pts)
  <2>1. PICK len \in Nat, pts \in SUBSET (0..63) : pes = AudioPes(len, pts)
    BY <1>1
  <2>2. /\ pes.stamp = pts /\ pes.pts = EncodePts(pts) /\ pes.rest = Rest(len)
        /\ pes.stream = "audio"
        /\ pes.length = IF Rest(len) < LengthMod THEN Rest(len) ELSE 0
    BY <2>1 DEF AudioPes
  <2>3. Rest(len) \in Nat
    BY DEF Rest
  <2>4. LengthTrue
    BY <1>0, <2>2, <2>3 DEF LengthTrue
  <2> QED BY <2>2, <2>4
<1>2. CASE \E t \in Texts, pts \in SUBSET (0..63) : pes = MetadataPes(Tag(t), pts)
  <2>1. PICK t \in Texts, pts \in SUBSET (0..63) : pes = MetadataPes(Tag(t), pts)
    BY <1>2
  <2> DEFINE r == Rest(TagBytes(Tag(t)))
  <2>2. /\ pes.stamp = pts /\ pes.pts = EncodePts(pts) /\ pes.rest = r
        /\ pes.stream = "metadata" /\ pes.length = r % LengthMod
    BY <2>1 DEF MetadataPes
  <2>3. Bytes(Tag(t).frames, Len(Tag(t).frames)) \in Nat /\ Header \in Nat
    BY TagIs, TimedAssumption
  <2>4. r \in Nat
    BY <2>3 DEF Rest, TagBytes
  <2> HIDE DEF r
  <2>5. r < LengthMod => r % LengthMod = r
    BY <1>0, <2>4
  <2>6. LengthTrue
    BY <1>0, <2>2, <2>4, <2>5 DEF LengthTrue
  <2> QED BY <2>2, <2>6
<1> QED BY <1>1, <1>2 DEF TimedInv

(* The stamp read is the counter's lower 33 bits.                          *)
LEMMA PtsRead ==
    ASSUME NEW S \in SUBSET (0..63) PROVE ReadPts(EncodePts(S)) = S \cap 0..32
<1> DEFINE b == EncodePts(S)
           b1 == Shl(Shr(S, 29) \cap 1..3, 29)
           b2 == Shl(Shr(S, 22) \cap 0..7, 22)
           b3 == Shl(Shr(S, 14) \cap 1..7, 14)
           b4 == Shl(Shr(S, 7) \cap 0..7, 7)
           b5 == Shr(Shl(S, 1) \cap 1..7, 1)
<1>0. S \in SUBSET Nat
  OBVIOUS
<1>1. /\ b[1] \cap 1..3 = Shr(S, 29) \cap 1..3 /\ b[2] = Shr(S, 22) \cap 0..7
      /\ b[3] \cap 1..7 = Shr(S, 14) \cap 1..7 /\ b[4] = Shr(S, 7) \cap 0..7
      /\ b[5] \cap 1..7 = Shl(S, 1) \cap 1..7
  <2>1. b = <<{0, 5} \cup (Shr(S, 29) \cap 1..3), Shr(S, 22) \cap 0..7,
              {0} \cup (Shr(S, 14) \cap 1..7), Shr(S, 7) \cap 0..7,
              {0} \cup (Shl(S, 1) \cap 1..7)>>
    BY DEF EncodePts, AsU8
  <2>2. 0 \notin 1..3 /\ 5 \notin 1..3 /\ 0 \notin 1..7
    OBVIOUS
  <2> DEFINE p == Shr(S, 29)
             q == Shr(S, 22)
             r == Shr(S, 14)
             s == Shr(S, 7)
             t == Shl(S, 1)
             U == 1..3
             V == 1..7
             W == 0..7
  <2>3. b = <<{0, 5} \cup (p \cap U), q \cap W, {0} \cup (r \cap V), s \cap W, {0} \cup (t \cap V)>>
    BY <2>1
  <2>4. 0 \notin U /\ 5 \notin U /\ 0 \notin V
    BY <2>2
  <2> HIDE DEF b, p, q, r, s, t, U, V, W
  <2>5. /\ b[1] = {0, 5} \cup (p \cap U) /\ b[2] = q \cap W /\ b[3] = {0} \cup (r \cap V)
        /\ b[4] = s \cap W /\ b[5] = {0} \cup (t \cap V)
    BY <2>3
  <2>6. b[1] \cap U = p \cap U /\ b[3] \cap V = r \cap V /\ b[5] \cap V = t \cap V
    BY <2>4, <2>5
  <2> QED BY <2>5, <2>6 DEF p, q, r, s, t, U, V, W
<1>2. ReadPts(b) = b1 \cup b2 \cup b3 \cup b4 \cup b5
  <2> HIDE DEF b
  <2> QED BY <1>1 DEF ReadPts
<1>3. ASSUME NEW x
      PROVE  /\ x \in b1 <=> x \in S /\ x >= 29 + 1 /\ x <= 29 + 3
             /\ x \in b2 <=> x \in S /\ x >= 22 + 0 /\ x <= 22 + 7
             /\ x \in b3 <=> x \in S /\ x >= 14 + 1 /\ x <= 14 + 7
             /\ x \in b4 <=> x \in S /\ x >= 7 + 0 /\ x <= 7 + 7
  BY <1>0, Group
<1>4. ASSUME NEW x PROVE x \in b5 <=> x \in S /\ x <= 6
  <2> DEFINE T == Shl(S, 1) \cap 1..7
  <2>1. T \in SUBSET Nat
    OBVIOUS
  <2>2. x \in b5 <=> x \in Nat /\ x + 1 \in T
    <3>1. b5 = Shr(T, 1)
      OBVIOUS
    <3> HIDE DEF T, b5
    <3> QED BY <2>1, <3>1, Shifts
  <2>3. x \in Nat => (x + 1 \in Shl(S, 1) <=> x \in S)
    <3> SUFFICES ASSUME x \in Nat PROVE x + 1 \in Shl(S, 1) <=> x \in S
      OBVIOUS
    <3> DEFINE y == x + 1
    <3>1. y \in Nat /\ y >= 1 /\ y - 1 = x
      OBVIOUS
    <3> HIDE DEF y
    <3>2. y \in Shl(S, 1) <=> y \in Nat /\ y >= 1 /\ y - 1 \in S
      BY <1>0, Shifts
    <3> QED BY <3>1, <3>2 DEF y
  <2>4. x \in Nat => (x + 1 \in 1..7 <=> x <= 6)
    OBVIOUS
  <2>5. x \in S => x \in Nat
    BY <1>0
  <2>6. x + 1 \in T <=> x + 1 \in Shl(S, 1) /\ x + 1 \in 1..7
    OBVIOUS
  <2> HIDE DEF T, b5
  <2> QED BY <2>2, <2>3, <2>4, <2>5, <2>6
<1> HIDE DEF b, b1, b2, b3, b4, b5
<1>5. ASSUME NEW x
      PROVE  x \in b1 \cup b2 \cup b3 \cup b4 \cup b5 <=> x \in S \cap 0..32
  <2>1. x \in S => x \in Nat
    BY <1>0
  <2> QED BY <1>3, <1>4, <2>1
<1>6. ReadPts(b) = S \cap 0..32
  BY <1>2, <1>5
<1> QED BY <1>6 DEF b

(* And so is the clock reference.                                          *)
LEMMA PcrRead ==
    ASSUME NEW S \in SUBSET (0..63) PROVE ReadPcr(WritePcr(S)) = S \cap 0..32
<1> DEFINE b == WritePcr(S)
           b1 == Shl(Shr(S, 25) \cap 0..7, 25)
           b2 == Shl(Shr(S, 17) \cap 0..7, 17)
           b3 == Shl(Shr(S, 9) \cap 0..7, 9)
           b4 == Shl(Shr(S, 1) \cap 0..7, 1)
           Z == S \cap {0}
           T == (Shl(Z, 7) \cup 1..6) \cap {7}
           b5 == Shr(T, 7)
<1>0. S \in SUBSET Nat /\ Z \in SUBSET Nat
  OBVIOUS
<1>1. ReadPcr(b) = b1 \cup b2 \cup b3 \cup b4 \cup b5
  BY DEF ReadPcr, WritePcr, AsU8
<1>2. ASSUME NEW x
      PROVE  /\ x \in b1 <=> x \in S /\ x >= 25 + 0 /\ x <= 25 + 7
             /\ x \in b2 <=> x \in S /\ x >= 17 + 0 /\ x <= 17 + 7
             /\ x \in b3 <=> x \in S /\ x >= 9 + 0 /\ x <= 9 + 7
             /\ x \in b4 <=> x \in S /\ x >= 1 + 0 /\ x <= 1 + 7
  BY <1>0, Group
<1>3. ASSUME NEW x PROVE x \in b5 <=> x \in S /\ x = 0
  <2>1. 7 \in Shl(Z, 7) <=> 0 \in Z
    <3> HIDE DEF Z
    <3>1. 7 \in Shl(Z, 7) <=> 7 \in Nat /\ 7 >= 7 /\ 7 - 7 \in Z
      BY <1>0, Shifts
    <3> QED BY <3>1
  <2>2. T \in SUBSET Nat
    OBVIOUS
  <2>3. x \in b5 <=> x \in Nat /\ x + 7 \in T
    <3> HIDE DEF T
    <3> QED BY <2>2, Shifts
  <2>4. \A y : y \in T <=> y = 7 /\ 7 \in Shl(Z, 7)
    <3>1. 7 \notin 1..6
      OBVIOUS
    <3> HIDE DEF Z
    <3> QED BY <3>1
  <2>5. 0 \in Z <=> 0 \in S
    OBVIOUS
  <2> HIDE DEF T, Z, b5
  <2>6. x \in b5 <=> x \in Nat /\ x + 7 = 7 /\ 0 \in S
    BY <2>1, <2>3, <2>4, <2>5
  <2>7. x \in Nat => (x + 7 = 7 <=> x = 0)
    OBVIOUS
  <2>8. 0 \in Nat
    OBVIOUS
  <2> QED BY <2>6, <2>7, <2>8
<1> HIDE DEF b1, b2, b3, b4, b5
<1>4. ASSUME NEW x
      PROVE  x \in b1 \cup b2 \cup b3 \cup b4 \cup b5 <=> x \in S \cap 0..32
  <2>1. x \in S => x \in Nat
    BY <1>0
  <2> QED BY <1>2, <1>3, <2>1
<1>5. ReadPcr(b) = S \cap 0..32
  <2> HIDE DEF b
  <2> QED BY <1>1, <1>4
<1> QED BY <1>5

LEMMA HeaderIsTrue == TimedInv => FieldsTrue
<1> SUFFICES ASSUME TimedInv PROVE FieldsTrue
  OBVIOUS
<1> DEFINE S == pes.stamp
<1>1. S \in SUBSET (0..63) /\ pes.pts = EncodePts(S) /\ LengthTrue
  BY StampOf
<1> HIDE DEF S
<1>2. ReadPts(pes.pts) = S \cap 0..32 /\ ReadPcr(WritePcr(S)) = S \cap 0..32
  BY <1>1, PtsRead, PcrRead
<1>3. \A i \in {1, 3, 5} : 0 \in pes.pts[i]
  BY <1>1 DEF EncodePts
<1>4. pes.pts[1] \cap 4..7 = {5}
  <2> DEFINE U == Shr(S, 29) \cap 1..3
  <2>1. pes.pts[1] = {0, 5} \cup U
    BY <1>1 DEF EncodePts
  <2>2. U \subseteq 1..3
    OBVIOUS
  <2> HIDE DEF U
  <2>3. (1..3) \cap (4..7) = {} /\ 0 \notin 4..7 /\ 5 \in 4..7
    OBVIOUS
  <2> DEFINE V == 4..7
             W == 1..3
  <2>4. U \subseteq W /\ W \cap V = {} /\ 0 \notin V /\ 5 \in V
    BY <2>2, <2>3
  <2> HIDE DEF V, W
  <2>5. ({0, 5} \cup U) \cap V = {5}
    BY <2>4
  <2> QED BY <2>1, <2>5 DEF V
<1> QED BY <1>1, <1>2, <1>3, <1>4 DEF FieldsTrue, StampsTrue, S

(* The types hold in every reachable state.                                *)
THEOREM TimedTypeCorrect == TimedSpec => []TimedTypeOK
BY TimedInvariant, TimedTyped, PTL

(* A receiver that goes by the sizes comes upon every frame of a tag.      *)
THEOREM FramesAreFound == TimedSpec => []FramesFound
BY TimedInvariant, FoundByWalk, PTL

(* The length and the stamp in a PES header say what they should.          *)
THEOREM FieldsAreTrue == TimedSpec => []FieldsTrue
BY TimedInvariant, HeaderIsTrue, PTL

-----------------------------------------------------------------------------
(* The lineup (module Lineup), for any number of overlapping requests.     *)
(* What is needed beyond the properties: a request in flight knows the     *)
(* device's lineup of some time since it asked, and nothing is dated in    *)
(* the future.                                                             *)

Dated ==
    /\ \A v \in Version : v < version => ended[v] <= now
    /\ cache.at <= now /\ answer.at <= now /\ pipeline.from.at <= now
    /\ \A c \in Clients : /\ asked[c] <= now
                          /\ pc[c] # "idle" => now <= asked[c] + Patience

(* What the device told a request, it had after the request was made.      *)
InFlight == \A c \in Clients : pc[c] = "answered" => Had(got[c], asked[c], now)

LineupInv == LineupTypeOK /\ Dated /\ InFlight /\ CacheYoung /\ AnswersRecent /\ NameExplained

-----------------------------------------------------------------------------

(* A lineup of a period is a lineup of a longer one.                       *)
LEMMA HadWider ==
    ASSUME LineupTypeOK, NEW v \in Int, NEW f \in Int, NEW t \in Int,
           NEW g \in Int, NEW u \in Int, Had(v, f, t), g <= f, t <= u
    PROVE  Had(v, g, u)
<1>1. /\ v \in 1..version
      /\ v > 1 => ended[v - 1] <= t
      /\ v < version => f <= ended[v]
  BY DEF Had
<1>2. version \in Version /\ ended \in [Version -> Time]
  BY DEF LineupTypeOK
<1>3. v \in Version
  BY <1>1, <1>2, LineupAssumption DEF Version
<1>4. ended[v] \in Int
  BY <1>2, <1>3 DEF Time
<1>5. v > 1 => ended[v - 1] \in Int
  BY <1>2, <1>3, LineupAssumption DEF Version, Time
<1>6. v > 1 => ended[v - 1] <= u
  BY <1>1, <1>5
<1>7. v < version => g <= ended[v]
  BY <1>1, <1>4
<1> QED BY <1>1, <1>6, <1>7 DEF Had

(* Had after a step, of a lineup and a period known before it.             *)
HadAfter(v, f, t) ==
    /\ v \in 1..version'
    /\ v > 1 => ended'[v - 1] <= t
    /\ v < version' => f <= ended'[v]

(* The past of the device is not changed by its next lineup.               *)
LEMMA HadKept ==
    ASSUME LineupTypeOK, LineupTypeOK', [LineupNext]_lineupVars,
           NEW v \in Int, NEW f \in Int, NEW t \in Int,
           NEW g \in Int, NEW u \in Int, Had(v, f, t), f <= now, g <= f, t <= u
    PROVE  HadAfter(v, g, u)
<1>1. \/ UNCHANGED <<version, ended>>
      \/ version' = version + 1 /\ ended' = [ended EXCEPT ![version] = now]
  BY DEF LineupNext, lineupVars, Rescan, Tick, Remove, Hit, Ask, DeviceAnswers, Fail, Store
<1>2. Had(v, g, u)
  BY HadWider
<1>3. /\ version \in Version /\ ended \in [Version -> Time] /\ v \in 1..version
      /\ now \in Int /\ Version = 1..MaxVersion /\ MaxVersion \in Nat
  BY <1>2, LineupAssumption DEF LineupTypeOK, Had, Version, Time
<1>4. CASE UNCHANGED <<version, ended>>
  BY <1>2, <1>4 DEF Had, HadAfter
<1>5. CASE version' = version + 1 /\ ended' = [ended EXCEPT ![version] = now]
  <2>1. v \in 1..version'
    BY <1>3, <1>5
  <2>2. v > 1 => ended'[v - 1] <= u
    BY <1>2, <1>3, <1>5 DEF Had
  <2>3. v < version' => g <= ended'[v]
    BY <1>2, <1>3, <1>5 DEF Had
  <2> QED BY <2>1, <2>2, <2>3 DEF HadAfter
<1> QED BY <1>1, <1>4, <1>5

(* What the cache is hit with is as recent as an answer has to be.         *)
LEMMA HitRecent ==
    ASSUME LineupInv, CacheFresh
    PROVE  Had(cache.v, now - MaxAge - Patience, now)
<1>1. /\ cache.v \in Int /\ cache.at \in Int /\ now \in Int
      /\ MaxAge \in Nat /\ Patience \in Nat
  BY LineupAssumption DEF LineupInv, LineupTypeOK, Entry, Version, Time, None
<1>2. /\ Had(cache.v, cache.at - Patience, cache.at)
      /\ now - cache.at < MaxAge /\ cache.at <= now
  BY DEF LineupInv, CacheYoung, CacheFresh, Dated
<1> QED BY <1>1, <1>2, HadWider DEF LineupInv

(* So is what a request gets from the device, and what it caches.          *)
LEMMA GotRecent ==
    ASSUME LineupInv, NEW c \in Clients, pc[c] = "answered"
    PROVE  /\ Had(got[c], now - MaxAge - Patience, now)
           /\ Had(got[c], now - Patience, now)
<1>1. /\ got[c] \in Int /\ asked[c] \in Int /\ now \in Int
      /\ MaxAge \in Nat /\ Patience \in Nat
  BY LineupAssumption DEF LineupInv, LineupTypeOK, Version, Time, None
<1>2. Had(got[c], asked[c], now) /\ now <= asked[c] + Patience
  BY DEF LineupInv, InFlight, Dated
<1> QED BY <1>1, <1>2, HadWider DEF LineupInv

-----------------------------------------------------------------------------

LEMMA LineupInitInv == LineupInit => LineupInv
<1> SUFFICES ASSUME LineupInit PROVE LineupInv
  OBVIOUS
<1> USE DEF LineupInit, NoEntry, NoPipeline, None
<1>1. LineupTypeOK
  BY LineupAssumption DEF LineupTypeOK, Entry, Version, Time
<1>2. Dated
  BY LineupAssumption DEF Dated, Version, Time
<1>3. InFlight /\ CacheYoung /\ AnswersRecent /\ NameExplained
  BY DEF InFlight, CacheYoung, AnswersRecent, NameExplained
<1> QED BY <1>1, <1>2, <1>3 DEF LineupInv

LEMMA LineupTypeStep ==
    ASSUME LineupTypeOK, [LineupNext]_lineupVars
    PROVE  LineupTypeOK'
<1> USE LineupAssumption DEF LineupTypeOK, Version, Time, Entry, None
<1>1. CASE Rescan
  BY <1>1 DEF Rescan
<1>2. CASE Tick
  BY <1>2 DEF Tick
<1>3. CASE Remove
  BY <1>3 DEF Remove, NoPipeline, NoEntry
<1>4. ASSUME NEW c \in Clients, Hit(c) PROVE LineupTypeOK'
  BY <1>4 DEF Hit, Return
<1>5. ASSUME NEW c \in Clients, Ask(c) PROVE LineupTypeOK'
  BY <1>5 DEF Ask
<1>6. ASSUME NEW c \in Clients, DeviceAnswers(c) PROVE LineupTypeOK'
  BY <1>6 DEF DeviceAnswers
<1>7. ASSUME NEW c \in Clients, Fail(c) PROVE LineupTypeOK'
  BY <1>7 DEF Fail, Done, Return
<1>8. ASSUME NEW c \in Clients, Store(c) PROVE LineupTypeOK'
  BY <1>8 DEF Store, Done, Return
<1>9. CASE UNCHANGED lineupVars
  BY <1>9 DEF lineupVars
<1> QED BY <1>1, <1>2, <1>3, <1>4, <1>5, <1>6, <1>7, <1>8, <1>9 DEF LineupNext

LEMMA DatedStep ==
    ASSUME LineupTypeOK, Dated, [LineupNext]_lineupVars
    PROVE  Dated'
<1> USE LineupAssumption DEF LineupTypeOK, Dated, Version, Time, Entry, None
<1>1. CASE Rescan
  BY <1>1 DEF Rescan
<1>2. CASE Tick
  BY <1>2 DEF Tick
<1>3. CASE Remove
  BY <1>3 DEF Remove, NoPipeline, NoEntry
<1>4. ASSUME NEW c \in Clients, Hit(c) PROVE Dated'
  BY <1>4 DEF Hit, Return
<1>5. ASSUME NEW c \in Clients, Ask(c) PROVE Dated'
  BY <1>5 DEF Ask
<1>6. ASSUME NEW c \in Clients, DeviceAnswers(c) PROVE Dated'
  BY <1>6 DEF DeviceAnswers
<1>7. ASSUME NEW c \in Clients, Fail(c) PROVE Dated'
  BY <1>7 DEF Fail, Done, Return
<1>8. ASSUME NEW c \in Clients, Store(c) PROVE Dated'
  BY <1>8 DEF Store, Done, Return
<1>9. CASE UNCHANGED lineupVars
  BY <1>9 DEF lineupVars
<1> QED BY <1>1, <1>2, <1>3, <1>4, <1>5, <1>6, <1>7, <1>8, <1>9 DEF LineupNext

LEMMA InFlightStep ==
    ASSUME LineupInv, [LineupNext]_lineupVars, LineupTypeOK', Dated'
    PROVE  InFlight'
<1> SUFFICES ASSUME NEW d \in Clients, pc'[d] = "answered"
             PROVE  Had(got[d], asked[d], now)'
  BY DEF InFlight
<1> USE DEF LineupInv
<1>1. /\ now \in Int /\ asked[d] \in Int /\ got[d] \in Int
      /\ now' \in Int /\ asked[d] <= now /\ got \in [Clients -> Version \cup {None}]
      /\ pc \in [Clients -> {"idle", "asked", "answered"}] /\ asked \in [Clients -> Time]
  BY LineupAssumption DEF LineupTypeOK, Dated, Version, Time, None
<1>2. ASSUME pc[d] = "answered", got'[d] = got[d], asked'[d] = asked[d]
      PROVE  Had(got[d], asked[d], now)'
  <2>1. now <= now'
    BY <1>1 DEF LineupNext, lineupVars, Rescan, Tick, Remove, Hit, Ask, DeviceAnswers, Fail, Store
  <2>2. Had(got[d], asked[d], now)
    BY <1>2 DEF InFlight
  <2>3. HadAfter(got[d], asked[d], now')
    BY <1>1, <2>1, <2>2, HadKept
  <2> QED BY <1>2, <2>3 DEF Had, HadAfter
<1>3. CASE UNCHANGED <<pc, got, asked>>
  BY <1>2, <1>3
<1>4. ASSUME NEW c \in Clients, Ask(c) \/ Fail(c) \/ Store(c)
      PROVE  Had(got[d], asked[d], now)'
  <2>1. c # d
    BY <1>1, <1>4 DEF Ask, Fail, Store, Done
  <2> QED BY <1>1, <1>2, <1>4, <2>1 DEF Ask, Fail, Store, Done
<1>5. ASSUME NEW c \in Clients, DeviceAnswers(c)
      PROVE  Had(got[d], asked[d], now)'
  <2>1. CASE c # d
    BY <1>1, <1>2, <1>5, <2>1 DEF DeviceAnswers
  <2>2. CASE c = d
    <3>1. /\ got'[d] = version /\ UNCHANGED <<now, version, ended>>
          /\ version \in Version /\ Version = 1..MaxVersion /\ MaxVersion \in Nat
      BY <1>1, <1>5, <2>2, LineupAssumption DEF DeviceAnswers, LineupTypeOK, Version
    <3>2. version > 1 => ended[version - 1] <= now
      BY <3>1 DEF Dated
    <3> QED BY <3>1, <3>2 DEF Had
  <2> QED BY <2>1, <2>2
<1> QED BY <1>3, <1>4, <1>5 DEF LineupNext, lineupVars, Rescan, Tick, Remove, Hit

LEMMA CacheStep ==
    ASSUME LineupInv, [LineupNext]_lineupVars, LineupTypeOK', Dated'
    PROVE  CacheYoung'
<1> USE DEF LineupInv
<1>1. /\ cache.v \in Int /\ cache.at \in Int /\ now \in Int /\ Patience \in Nat
      /\ cache.at <= now
  BY LineupAssumption DEF LineupTypeOK, Dated, Entry, Version, Time, None
<1>2. CASE cache' = cache
  <2> SUFFICES ASSUME cache.v # None
               PROVE  HadAfter(cache.v, cache.at - Patience, cache.at)
    BY <1>2 DEF CacheYoung, Had, HadAfter
  <2> QED BY <1>1, HadKept DEF CacheYoung
<1>3. ASSUME NEW c \in Clients, Store(c) PROVE CacheYoung'
  <2>1. Had(got[c], now - Patience, now) /\ got[c] \in Int
    BY <1>3, GotRecent, LineupAssumption DEF Store, LineupTypeOK, Version, None
  <2>2. HadAfter(got[c], now - Patience, now)
    BY <1>1, <2>1, HadKept
  <2>3. cache'.v = got[c] /\ cache'.at = now
    BY <1>3 DEF Store
  <2> QED BY <2>2, <2>3 DEF CacheYoung, Had, HadAfter
<1> QED
  BY <1>2, <1>3
     DEF LineupNext, lineupVars, Rescan, Tick, Remove, Hit, Ask, DeviceAnswers, Fail

(* What a request returns in a step of it.                                 *)
LEMMA Returned ==
    ASSUME LineupInv, [LineupNext]_lineupVars, NEW c \in Clients,
           Hit(c) \/ Fail(c) \/ Store(c)
    PROVE  \E v \in Int : /\ Return(c, v)
                          /\ v = None \/ Had(v, now - MaxAge - Patience, now)
<1>1. CASE Hit(c)
  BY <1>1, HitRecent, LineupAssumption DEF Hit, LineupInv, LineupTypeOK, Entry, Version, None
<1>2. CASE Fail(c)
  BY <1>2 DEF Fail, None
<1>3. CASE Store(c)
  BY <1>3, GotRecent, LineupAssumption DEF Store, LineupInv, LineupTypeOK, Version, None
<1> QED BY <1>1, <1>2, <1>3

LEMMA AnswerStep ==
    ASSUME LineupInv, [LineupNext]_lineupVars, LineupTypeOK'
    PROVE  AnswersRecent' /\ NameExplained'
<1> USE DEF LineupInv
<1>1. /\ answer.v \in Int /\ answer.at \in Int /\ answer.at <= now
      /\ pipeline.from.v \in Int /\ pipeline.from.at \in Int /\ pipeline.from.at <= now
      /\ now \in Int /\ MaxAge \in Nat /\ Patience \in Nat
      /\ Version \subseteq Int
  <2>1. Version \subseteq Int /\ Time \subseteq Int /\ None \in Int
    BY LineupAssumption DEF Version, Time, None
  <2>2. answer \in Entry /\ pipeline.from \in Entry /\ now \in Time
    BY DEF LineupTypeOK
  <2> QED BY <2>1, <2>2, LineupAssumption DEF Entry, Dated
<1>2. ASSUME answer' = answer PROVE AnswersRecent'
  <2> SUFFICES ASSUME answer.v # None
               PROVE  HadAfter(answer.v, answer.at - MaxAge - Patience, answer.at)
    BY <1>2 DEF AnswersRecent, Had, HadAfter
  <2> QED BY <1>1, HadKept DEF AnswersRecent
<1>3. ASSUME pipeline' = pipeline PROVE NameExplained'
  <2> SUFFICES ASSUME pipeline.there, ~(~pipeline.named /\ pipeline.from.v = None)
               PROVE  \E v \in Version :
                         /\ pipeline.named <=> v \in Listing
                         /\ HadAfter(v, pipeline.from.at - MaxAge - Patience, pipeline.from.at)
    BY <1>3 DEF NameExplained, Had, HadAfter
  <2>1. PICK v \in Version : /\ pipeline.named <=> v \in Listing
                             /\ Had(v, pipeline.from.at - MaxAge - Patience, pipeline.from.at)
    BY DEF NameExplained
  <2>2. HadAfter(v, pipeline.from.at - MaxAge - Patience, pipeline.from.at)
    BY <1>1, <2>1, HadKept
  <2> QED BY <2>1, <2>2
<1>4. ASSUME pipeline' = NoPipeline PROVE NameExplained'
  BY <1>4 DEF NameExplained, NoPipeline
<1>5. ASSUME NEW c \in Clients, Hit(c) \/ Fail(c) \/ Store(c)
      PROVE  AnswersRecent' /\ NameExplained'
  <2>1. PICK v \in Int : Return(c, v) /\ (v = None \/ Had(v, now - MaxAge - Patience, now))
    BY <1>5, Returned
  <2>2. ASSUME v # None PROVE HadAfter(v, now - MaxAge - Patience, now)
    <3>1. Had(v, now - MaxAge - Patience, now)
      BY <2>1, <2>2
    <3>2. /\ now \in Int /\ now - MaxAge - Patience \in Int
          /\ now - MaxAge - Patience <= now
      BY LineupAssumption DEF LineupTypeOK, Time
    <3>3. /\ now - MaxAge - Patience <= now - MaxAge - Patience /\ now <= now
      BY <3>2
    <3> QED BY <1>1, <2>1, <3>1, <3>2, <3>3, HadKept
  <2>3. AnswersRecent'
    BY <2>1, <2>2 DEF Return, AnswersRecent, Had, HadAfter
  <2>4. CASE c = Creator
    <3>1. /\ pipeline'.there /\ pipeline'.from.v = v /\ pipeline'.from.at = now
          /\ pipeline'.named <=> v \in Listing
      BY <2>1, <2>4 DEF Return
    <3>2. v = None => v \notin Listing
      BY LineupAssumption DEF None
    <3>3. v # None => v \in Version
      BY <2>1, LineupAssumption DEF Had, LineupTypeOK, Version
    <3>4. CASE v = None
      BY <2>3, <3>1, <3>2, <3>4 DEF NameExplained
    <3>5. CASE v # None
      BY <2>2, <2>3, <3>1, <3>3, <3>5 DEF NameExplained, Had, HadAfter
    <3> QED BY <3>4, <3>5
  <2>5. CASE c # Creator
    BY <1>3, <2>1, <2>3, <2>5 DEF Return
  <2> QED BY <2>3, <2>4, <2>5
<1>6. CASE Rescan \/ Tick \/ UNCHANGED lineupVars \/ \E c \in Clients : Ask(c) \/ DeviceAnswers(c)
  BY <1>2, <1>3, <1>6 DEF Rescan, Tick, Ask, DeviceAnswers, lineupVars
<1>7. CASE Remove
  BY <1>2, <1>4, <1>7 DEF Remove
<1> QED BY <1>5, <1>6, <1>7 DEF LineupNext

-----------------------------------------------------------------------------

LEMMA LineupStepInv == LineupInv /\ [LineupNext]_lineupVars => LineupInv'
<1> SUFFICES ASSUME LineupInv, [LineupNext]_lineupVars PROVE LineupInv'
  OBVIOUS
<1>1. LineupTypeOK' /\ Dated'
  BY LineupTypeStep, DatedStep DEF LineupInv
<1>2. InFlight' /\ CacheYoung'
  BY <1>1, InFlightStep, CacheStep
<1>3. AnswersRecent' /\ NameExplained'
  BY <1>1, AnswerStep
<1> QED BY <1>1, <1>2, <1>3 DEF LineupInv

(* The cache of fetch_lineup, whatever overlaps.                           *)
THEOREM LineupInvariant == LineupSpec => []LineupInv
BY LineupInitInv, LineupStepInv, PTL DEF LineupSpec

(* The state of the cache and of its requests keeps its type.              *)
THEOREM LineupTypeCorrect == LineupSpec => []LineupTypeOK
<1>1. LineupInv => LineupTypeOK
  BY DEF LineupInv
<1> QED BY <1>1, LineupInvariant, PTL

(* The cache never holds what the device had dropped when it was asked,    *)
(* however often an older answer overwrites a newer one.                   *)
THEOREM CacheStaysYoung == LineupSpec => []CacheYoung
<1>1. LineupInv => CacheYoung
  BY DEF LineupInv
<1> QED BY <1>1, LineupInvariant, PTL

(* Nobody gets a lineup older than MaxAge and the length of a request.     *)
THEOREM AnswersStayRecent == LineupSpec => []AnswersRecent
<1>1. LineupInv => AnswersRecent
  BY DEF LineupInv
<1> QED BY <1>1, LineupInvariant, PTL

(* The name a pipeline has for life is one its lineup gave it.             *)
THEOREM NamesExplained == LineupSpec => []NameExplained
<1>1. LineupInv => NameExplained
  BY DEF LineupInv
<1> QED BY <1>1, LineupInvariant, PTL

(* Cache, answers and names, for any number of requests at once.           *)
THEOREM LineupCorrect == LineupSpec => []LineupTrue
BY CacheStaysYoung, AnswersStayRecent, NamesExplained, PTL DEF LineupTrue

-----------------------------------------------------------------------------
(* Songs and programs (module Metadata).  The invariants rest on the order *)
(* of the two writes and of the two reads: what is on its way is never     *)
(* older than what is there.                                               *)

USE MetadataAssumption

(* The update in the poller's hands: its memo stands for it, and it is in  *)
(* the cells that are written already.                                     *)
MemoInv ==
    /\ last_title \in {Joined(update.track), update.track.title}
    /\ last_title = update.track.title /\ update.track.artist = << >> =>
          update.art.url = Fallback
    /\ poller \in {"ask", "askProgram", "asleep"} => track = update.track
    /\ poller \in {"ask", "askProgram", "asleep", "track"} => artwork = update.art

(* From the mux task's copy to the poller's update nothing gets older.     *)
AgeInv ==
    /\ update.art.ver = update.track.ver
    /\ seen.ver <= track.ver /\ track.ver <= artwork.ver
    /\ artwork.ver <= update.art.ver
    /\ tag.track.ver <= tag.art.ver

MetadataInv == TypeOK /\ MemoInv /\ AgeInv

(* A song's line is not its title, as it has a separator more.             *)
LEMMA LineHasSeparator ==
    ASSUME NEW s \in Song, s.artist = << >>
    PROVE  Joined(s) # s.title
<1>1. s.title \in Seq(Word) /\ s.artist \in Seq(Word)
  BY Zenon
<1>a. <<"-">> \in Seq(Word) /\ Len(<<"-">>) = 1
  OBVIOUS
<1>2. s.artist \o <<"-">> \in Seq(Word) /\ Len(s.artist \o <<"-">>) = 1
  BY <1>1, <1>a
<1>3. Len((s.artist \o <<"-">>) \o s.title) = 1 + Len(s.title)
  BY <1>1, <1>2
<1>4. Len(s.title) \in Nat
  BY <1>1
<1> QED BY <1>3, <1>4 DEF Joined

LEMMA MetadataInitInv == Init => MetadataInv
BY DEF Init, MetadataInv, TypeOK, MemoInv, AgeInv, Track, Art, NoTrack, Logo

(* Whatever the poller is told, it is left with an update its memo stands  *)
(* for, newer than all there is, or with what it had.                      *)
LEMMA ShowKeeps ==
    ASSUME MetadataInv, poller \in {"ask", "askProgram"},
           NEW line, NEW title, NEW artist, NEW url,
           Show(line, title, artist, url),
           UNCHANGED <<artwork, track, muxVars, song, program, changes>>,
           failures' \in 0..MaxFailures,
           line \in {Joined(s) : s \in Song} \cup Program \cup {<< >>},
           title \in {s.title : s \in Song} \cup Program \cup {<< >>},
           artist \in {s.artist : s \in Song} \cup {<< >>},
           url \in {s.art : s \in Song} \cup {Fallback, NoArt},
           line \in {title, artist \o <<"-">> \o title},
           line = title /\ artist = << >> => url = Fallback
    PROVE  MetadataInv'
<1> USE DEF MetadataInv
<1>1. CASE line = last_title
  <2>1. poller' = "asleep" /\ UNCHANGED <<last_title, update>>
    BY <1>1 DEF Show
  <2>2. TypeOK'
    BY <2>1 DEF TypeOK, muxVars
  <2>3. MemoInv' /\ AgeInv'
    BY <2>1 DEF MemoInv, AgeInv, muxVars, Joined
  <2> QED BY <2>2, <2>3
<1>2. CASE line # last_title
  <2> DEFINE ver == update.track.ver + 1
             newTrack == [title |-> title, artist |-> artist, ver |-> ver]
             newArt == [url |-> url, ver |-> ver]
  <2>1. /\ poller' = "art" /\ last_title' = line
        /\ update' = [track |-> newTrack, art |-> newArt]
    BY <1>2 DEF Show
  <2>2. update.track.ver \in Nat /\ ver \in Nat /\ update.track.ver <= ver
    <3>1. update.track \in Track
      BY DEF TypeOK
    <3> QED BY <3>1 DEF Track
  <2>3. newTrack \in Track /\ newArt \in Art
    BY <2>2 DEF Track, Art
  <2>4. TypeOK'
    BY <2>1, <2>3 DEF TypeOK, muxVars
  <2>5. MemoInv'
    BY <2>1 DEF MemoInv, Joined
  <2>6. artwork.ver \in Nat /\ artwork.ver <= update.track.ver
    BY DEF TypeOK, Art, AgeInv
  <2>7. artwork.ver <= ver
    BY <2>2, <2>6
  <2>8. AgeInv'
    BY <2>1, <2>7 DEF AgeInv, muxVars
  <2> QED BY <2>4, <2>5, <2>8
<1> QED BY <1>1, <1>2

LEMMA MetadataStepInv == MetadataInv /\ [Next]_vars => MetadataInv'
<1> SUFFICES ASSUME MetadataInv, [Next]_vars PROVE MetadataInv'
  OBVIOUS
<1> USE DEF MetadataInv
<1>0. /\ update.track \in Track /\ update.art \in Art
      /\ artwork \in Art /\ track \in Track /\ seen \in Track
      /\ tag.track \in Track /\ tag.art \in Art
  BY DEF TypeOK
<1>a. /\ update.track.ver \in Nat /\ update.art.ver \in Nat
      /\ artwork.ver \in Nat /\ track.ver \in Nat
  BY <1>0 DEF Track, Art
<1>1. CASE UNCHANGED vars
  BY <1>1 DEF vars, externalVars, pollerVars, muxVars, TypeOK, MemoInv, AgeInv, Joined
<1>2. CASE Change
  <2>1. UNCHANGED <<pollerVars, muxVars, failures>>
    BY <1>2 DEF Change
  <2>2. TypeOK'
    BY <1>2, <2>1 DEF Change, pollerVars, muxVars, TypeOK
  <2> QED BY <2>1, <2>2 DEF pollerVars, muxVars, MemoInv, AgeInv, Joined
<1>3. CASE NowFails
  <2>1. TypeOK'
    BY <1>3 DEF NowFails, muxVars, TypeOK
  <2> QED BY <1>3, <2>1 DEF NowFails, muxVars, MemoInv, AgeInv, Joined
<1>4. CASE NowPlaying
  <2>1. song \in Song /\ failures' \in 0..MaxFailures
    BY <1>4 DEF NowPlaying, externalVars, TypeOK
  <2>2. Joined(song) = song.title /\ song.artist = << >> => song.art = Fallback
    BY <2>1, LineHasSeparator
  <2>3. Joined(song) = song.artist \o <<"-">> \o song.title
    BY DEF Joined
  <2>4. /\ Joined(song) \in {Joined(s) : s \in Song}
        /\ song.title \in {s.title : s \in Song}
        /\ song.artist \in {s.artist : s \in Song}
        /\ song.art \in {s.art : s \in Song}
    BY <2>1
  <2>5. /\ poller = "ask"
        /\ Show(Joined(song), song.title, song.artist, song.art)
        /\ UNCHANGED <<artwork, track, muxVars, song, program, changes>>
    BY <1>4 DEF NowPlaying, externalVars
  <2> DEFINE line == Joined(song)
  <2> HIDE DEF line
  <2>6. /\ line \in {Joined(s) : s \in Song} \cup Program \cup {<< >>}
        /\ line \in {song.title, song.artist \o <<"-">> \o song.title}
        /\ line = song.title /\ song.artist = << >> => song.art = Fallback
        /\ Show(line, song.title, song.artist, song.art)
    BY <2>2, <2>3, <2>4, <2>5 DEF line
  <2> QED BY <2>1, <2>4, <2>5, <2>6, ShowKeeps
<1>5. CASE NowNothing
  <2>1. TypeOK'
    BY <1>5 DEF NowNothing, externalVars, muxVars, TypeOK
  <2> QED BY <1>5, <2>1 DEF NowNothing, externalVars, muxVars, MemoInv, AgeInv, Joined
<1>6. CASE ProgramShown
  <2>1. program \in Program /\ failures' \in 0..MaxFailures
    BY <1>6 DEF ProgramShown, externalVars, TypeOK
  <2> QED BY <1>6, <2>1, ShowKeeps DEF ProgramShown, externalVars
<1>7. CASE ProgramMissing
  <2>1. failures' \in 0..MaxFailures
    BY <1>7 DEF ProgramMissing, TypeOK
  <2> QED BY <1>7, <2>1, ShowKeeps DEF ProgramMissing
<1>8. CASE WriteArt
  <2>1. TypeOK'
    BY <1>8 DEF WriteArt, externalVars, muxVars, TypeOK
  <2>2. MemoInv'
    BY <1>8 DEF WriteArt, MemoInv, Joined
  <2>3. track.ver <= update.art.ver
    BY <1>a DEF AgeInv
  <2>4. /\ artwork' = update.art
        /\ UNCHANGED <<update, track, seen, tag>>
    BY <1>8 DEF WriteArt, muxVars
  <2>5. AgeInv'
    BY <1>a, <2>3, <2>4 DEF AgeInv
  <2> QED BY <2>1, <2>2, <2>5
<1>9. CASE WriteTrack
  <2>1. TypeOK'
    BY <1>9 DEF WriteTrack, externalVars, muxVars, TypeOK
  <2>2. MemoInv'
    BY <1>9 DEF WriteTrack, MemoInv, Joined
  <2>3. artwork = update.art
    BY <1>9 DEF WriteTrack, MemoInv
  <2>4. AgeInv'
    BY <1>0, <1>9, <2>3 DEF WriteTrack, externalVars, muxVars, AgeInv, Track, Art
  <2> QED BY <2>1, <2>2, <2>4
<1>10. CASE Wake
  <2>1. TypeOK'
    BY <1>10 DEF Wake, externalVars, muxVars, TypeOK
  <2> QED BY <1>10, <2>1 DEF Wake, externalVars, muxVars, MemoInv, AgeInv, Joined
<1>11. CASE Abort
  <2>1. TypeOK'
    BY <1>11 DEF Abort, externalVars, muxVars, TypeOK
  <2> QED BY <1>11, <2>1 DEF Abort, externalVars, muxVars, MemoInv, AgeInv, Joined
<1>12. CASE ReadTrack
  <2>1. TypeOK'
    BY <1>12 DEF ReadTrack, externalVars, pollerVars, TypeOK
  <2>2. MemoInv'
    BY <1>12 DEF ReadTrack, pollerVars, MemoInv, Joined
  <2>3. AgeInv'
    BY <1>0, <1>12 DEF ReadTrack, pollerVars, AgeInv, Track, Art
  <2> QED BY <2>1, <2>2, <2>3
<1>13. CASE ReadArt
  <2>1. TypeOK'
    BY <1>13 DEF ReadArt, externalVars, pollerVars, TypeOK
  <2>2. MemoInv'
    BY <1>13 DEF ReadArt, pollerVars, MemoInv, Joined
  <2>3. AgeInv'
    BY <1>0, <1>13 DEF ReadArt, pollerVars, AgeInv, Track, Art
  <2> QED BY <2>1, <2>2, <2>3
<1> QED
  BY <1>1, <1>2, <1>3, <1>4, <1>5, <1>6, <1>7, <1>8, <1>9, <1>10, <1>11,
     <1>12, <1>13 DEF Next, PollerStep

(* The three facts about poller, cells and reader, for every behaviour.    *)
THEOREM MetadataInvariant == Spec => []MetadataInv
<1> QED BY MetadataInitInv, MetadataStepInv, PTL DEF Spec

(* Titles and artists are never mixed up, run_poller writes what it read.  *)
THEOREM MetadataTypeCorrect == Spec => []TypeOK
<1>1. MetadataInv => TypeOK
  BY DEF MetadataInv
<1> QED BY MetadataInvariant, <1>1, PTL

(* Before run_poller decides not to write, its memo stands for both cells. *)
THEOREM MemoHolds == Spec => []MemoTrue
<1>1. MetadataInv => MemoTrue
  BY DEF MetadataInv, MemoInv, AgeInv, MemoTrue, Joined
<1> QED BY MetadataInvariant, <1>1, PTL

(* No tag the mux task makes has artwork older than its title.             *)
THEOREM ArtKeepsUp == Spec => []ArtNotOlder
<1>1. MetadataInv => ArtNotOlder
  BY DEF MetadataInv, AgeInv, TypeOK, Track, Art, ArtNotOlder
<1> QED BY MetadataInvariant, <1>1, PTL

(* Memo, cells and tags keep to the order of the updates.                  *)
THEOREM UpdatesKeepOrder == Spec => []UpdatesInOrder
BY MemoHolds, ArtKeepsUp, PTL DEF UpdatesInOrder

-----------------------------------------------------------------------------
(* The three, as they are checked.                                         *)

LabelsInv == TimedInv /\ LineupInv /\ MetadataInv

LEMMA LabelsStep ==
    ASSUME [LabelsNext]_labelsVars
    PROVE  [TimedNext]_timedVars /\ [LineupNext]_lineupVars /\ [Next]_vars
BY DEF LabelsNext, labelsVars

(* One component's steps leave the others as they are.                     *)
THEOREM LabelsInvariant == LabelsFairSpec => []LabelsInv
<1>1. LabelsInit => LabelsInv
  BY TimedInitInv, LineupInitInv, MetadataInitInv DEF LabelsInit, LabelsInv
<1>2. LabelsInv /\ [LabelsNext]_labelsVars => LabelsInv'
  BY LabelsStep, TimedStepInv, LineupStepInv, MetadataStepInv DEF LabelsInv
<1> QED BY <1>1, <1>2, PTL DEF LabelsFairSpec

(* The states TLC goes through are what they are meant to be, whatever the *)
(* constants.                                                              *)
THEOREM LabelsTypeCorrect == LabelsFairSpec => []LabelsTypeOK
<1>1. LabelsInv => LabelsTypeOK
  BY TimedTyped DEF LabelsInv, LineupInv, MetadataInv, LabelsTypeOK
<1> QED BY <1>1, LabelsInvariant, PTL
=============================================================================
