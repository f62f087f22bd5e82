---------------------------- MODULE BasicProofs ----------------------------
(***************************************************************************)
(* What the proofs about several components rest on: induction, largest    *)
(* numbers, the folds of the community modules, and the ring buffer.       *)
(***************************************************************************)
EXTENDS SegmentStore, Segmenter, FiniteSetsExt, TLAPS,
        WellFoundedInduction

(* A set of numbers has a least one: the library's order on the numbers is *)
(* well-founded.                                                           *)
LEMMA LeastNumber ==
    ASSUME NEW T \in SUBSET Nat, T # {}
    PROVE  \E n \in T : \A m \in T : n <= m
<1>1. IsWellFoundedOn(OpToRel(<, Nat), Nat)
  BY NatLessThanWellFounded
<1>2. PICK n \in T : \A m \in T : <<m, n>> \notin OpToRel(<, Nat)
  <2> DEFINE R == OpToRel(<, Nat)
  <2>1. IsWellFoundedOn(R, Nat)
    BY <1>1
  <2> HIDE DEF R
  <2>2. \E n \in T : \A m \in T : <<m, n>> \notin R
    BY <2>1, WFMin
  <2> QED BY <2>2 DEF R
<1>3. \A m \in T : ~(m < n)
  BY <1>2 DEF OpToRel
<1> QED BY <1>3

(* Induction, for a set of numbers.                                        *)
LEMMA Inductive ==
    ASSUME NEW T \in SUBSET Nat, 0 \in T, \A n \in T : n + 1 \in T
    PROVE  T = Nat
<1>1. SUFFICES ASSUME Nat \ T # {} PROVE FALSE
  OBVIOUS
<1>2. PICK n \in Nat \ T : \A m \in Nat \ T : n <= m
  BY <1>1, LeastNumber
<1>3. n # 0 /\ n - 1 \in Nat /\ ~(n <= n - 1)
  BY <1>2
<1>4. n - 1 \in T
  BY <1>2, <1>3
<1>5. (n - 1) + 1 = n
  BY <1>2
<1> QED BY <1>2, <1>4, <1>5

(* The largest of a set of numbers.                                        *)
LEMMA MaxIs ==
    ASSUME NEW S \in SUBSET Nat, NEW m \in S, \A y \in S : m >= y
    PROVE  Max(S) = m
<1>1. Max(S) \in S /\ \A y \in S : Max(S) >= y
  BY DEF Max
<1>2. Max(S) >= m /\ m >= Max(S) /\ Max(S) \in Nat /\ m \in Nat
  BY <1>1
<1> QED BY <1>1, <1>2

LEMMA MaxIn ==
    ASSUME NEW n \in Nat, NEW S \in SUBSET (0..n), S # {}
    PROVE  Max(S) \in S /\ \A y \in S : Max(S) >= y
<1> DEFINE T == {n - y : y \in S}
<1>1. T \in SUBSET Nat /\ T # {}
  <2>1. \A y \in S : n - y \in Nat
    OBVIOUS
  <2> QED BY <2>1
<1>2. PICK d \in T : \A e \in T : d <= e
  <2> HIDE DEF T
  <2> QED BY <1>1, LeastNumber
<1>3. PICK m \in S : d = n - m
  BY <1>2
<1>4. ASSUME NEW y \in S PROVE m >= y
  <2>1. n - y \in T
    OBVIOUS
  <2>2. n - m <= n - y
    BY <1>2, <1>3, <2>1
  <2>3. m \in Nat /\ y \in Nat
    BY <1>3
  <2> QED BY <2>2, <2>3
<1> QED BY <1>3, <1>4 DEF Max

(* A fold's function on the sets of places of a list.                      *)
FoldsBy(it, h, base, s, n) ==
    \A t \in SUBSET (1..n) :
        it[t] = IF t = {} THEN base ELSE h[<<it[t \ {Max(t)}], s[Max(t)]>>]

(* It exists, by induction on the length of the list.                      *)
LEMMA FoldExists ==
    ASSUME NEW A, NEW X, NEW h \in [A \X X -> A], NEW base \in A, NEW s \in Seq(X)
    PROVE  \E it \in [SUBSET (1..Len(s)) -> A] : FoldsBy(it, h, base, s, Len(s))
<1> DEFINE Folds(n) == \E it \in [SUBSET (1..n) -> A] : FoldsBy(it, h, base, s, n)
           T == {n \in Nat : n <= Len(s) => Folds(n)}
<1>l. Len(s) \in Nat /\ \A i \in 1..Len(s) : s[i] \in X
  OBVIOUS
<1>1. Folds(0)
  <2> DEFINE it == [t \in SUBSET (1..0) |-> base]
  <2>1. it \in [SUBSET (1..0) -> A]
    OBVIOUS
  <2>2. \A t \in SUBSET (1..0) : t = {}
    OBVIOUS
  <2>3. FoldsBy(it, h, base, s, 0)
    BY <2>2 DEF FoldsBy
  <2> QED BY <2>1, <2>3
<1>2. ASSUME NEW n \in Nat, Folds(n), n + 1 <= Len(s) PROVE Folds(n + 1)
  <2>2. n + 1 \in 1..Len(s) /\ s[n + 1] \in X
    BY <1>l, <1>2
  <2>3. PICK it \in [SUBSET (1..n) -> A] : FoldsBy(it, h, base, s, n)
    BY <1>2
  <2> DEFINE g == [t \in SUBSET (1..(n + 1)) |->
                       IF n + 1 \in t THEN h[<<it[t \ {n + 1}], s[n + 1]>>] ELSE it[t]]
  <2>4. ASSUME NEW t \in SUBSET (1..(n + 1))
        PROVE  /\ n + 1 \notin t => t \in SUBSET (1..n)
               /\ t \ {n + 1} \in SUBSET (1..n)
               /\ n + 1 \in t => Max(t) = n + 1
    <3>1. \A i \in t : i \in 1..n \/ i = n + 1
      BY <2>2
    <3>2. n + 1 \in t => Max(t) = n + 1
      <4>1. t \in SUBSET Nat /\ \A y \in t : n + 1 >= y
        BY <2>2
      <4> QED BY <4>1, MaxIs
    <3> QED BY <3>1, <3>2
  <2>5. ASSUME NEW t \in SUBSET (1..(n + 1)) PROVE g[t] \in A
    BY <2>2, <2>3, <2>4
  <2>6. ASSUME NEW t \in SUBSET (1..(n + 1))
        PROVE  g[t] = IF t = {} THEN base ELSE h[<<g[t \ {Max(t)}], s[Max(t)]>>]
    <3>1. CASE n + 1 \in t
      <4>1. Max(t) = n + 1 /\ t \ {n + 1} \in SUBSET (1..n) /\ t # {}
        BY <2>4, <3>1
      <4>2. t \ {n + 1} \in SUBSET (1..(n + 1)) /\ n + 1 \notin t \ {n + 1}
        BY <2>2, <4>1
      <4>3. g[t \ {n + 1}] = it[t \ {n + 1}]
        BY <4>2
      <4> QED BY <3>1, <4>1, <4>3
    <3>2. CASE n + 1 \notin t
      <4>1. t \in SUBSET (1..n) /\ g[t] = it[t]
        BY <2>4, <3>2
      <4>2. t \ {Max(t)} \in SUBSET (1..(n + 1)) /\ n + 1 \notin t \ {Max(t)}
        BY <3>2
      <4>3. g[t \ {Max(t)}] = it[t \ {Max(t)}]
        BY <4>2
      <4> QED BY <2>3, <4>1, <4>3 DEF FoldsBy
    <3> QED BY <3>1, <3>2
  <2>7. g \in [SUBSET (1..(n + 1)) -> A]
    BY <2>5
  <2> HIDE DEF g
  <2>8. FoldsBy(g, h, base, s, n + 1)
    BY <2>6 DEF FoldsBy
  <2> QED BY <2>7, <2>8
<1>3. T = Nat
  <2> HIDE DEF Folds
  <2>1. T \in SUBSET Nat /\ 0 \in T
    BY <1>1
  <2>2. ASSUME NEW n \in T PROVE n + 1 \in T
    <3>1. n \in Nat /\ (n <= Len(s) => Folds(n))
      OBVIOUS
    <3>2. CASE n + 1 <= Len(s)
      BY <1>l, <1>2, <3>1, <3>2
    <3>3. CASE ~(n + 1 <= Len(s))
      BY <3>1, <3>3
    <3> QED BY <3>2, <3>3
  <2> HIDE DEF T
  <2> QED BY <2>1, <2>2, Inductive
<1>4. Folds(Len(s))
  <2> HIDE DEF Folds
  <2>1. Len(s) \in T
    BY <1>l, <1>3
  <2> QED BY <1>l, <2>1
<1> QED BY <1>4

(* What each element preserves holds of the whole fold.                    *)
LEMMA FoldInvariant ==
    ASSUME NEW it, NEW A, NEW n \in Nat, it[{}] \in A,
           \A k \in 1..n : it[1..(k - 1)] \in A => it[1..k] \in A
    PROVE  it[1..n] \in A
<1> DEFINE T == {k \in Nat : k <= n => it[1..k] \in A}
<1>1. 1..0 = {}
  OBVIOUS
<1>2. T \in SUBSET Nat /\ 0 \in T
  BY <1>1
<1>3. ASSUME NEW k \in T PROVE k + 1 \in T
  <2>1. k \in Nat /\ (k <= n => it[1..k] \in A) /\ (k + 1) - 1 = k
    OBVIOUS
  <2>2. CASE k + 1 <= n
    <3>1. k + 1 \in 1..n
      BY <2>1, <2>2
    <3>2. it[1..((k + 1) - 1)] \in A => it[1..(k + 1)] \in A
      BY <3>1
    <3> QED BY <2>1, <2>2, <3>2
  <2>3. CASE ~(k + 1 <= n)
    BY <2>1, <2>3
  <2> QED BY <2>2, <2>3
<1>4. T = Nat
  <2> HIDE DEF T
  <2> QED BY <1>2, <1>3, Inductive
<1> QED BY <1>4

(* The set of the first k places, and its last one.                        *)
LEMMA Places ==
    ASSUME NEW k \in Nat \ {0}
    PROVE  Max(1..k) = k /\ (1..k) \ {k} = 1..(k - 1) /\ 1..k # {}
<1>1. 1..k \in SUBSET Nat /\ k \in 1..k /\ \A y \in 1..k : k >= y
  OBVIOUS
<1>2. Max(1..k) = k
  BY <1>1, MaxIs
<1> QED BY <1>1, <1>2

-----------------------------------------------------------------------------

(* Division with remainder.                                                *)
LEMMA Quotient ==
    ASSUME NEW n \in Nat, NEW d \in Nat \ {0}
    PROVE  /\ n \div d \in Nat /\ n % d \in 0..(d - 1)
           /\ n = d * (n \div d) + (n % d)
<1>1. n \div d \in Nat
  OBVIOUS
<1>2. n % d \in 0..(d - 1)
  OBVIOUS
<1>3. n \in Int /\ d \in Int /\ d > 0
  OBVIOUS
<1>4. n = d * (n \div d) + (n % d)
  BY <1>3, Z3
<1> QED BY <1>1, <1>2, <1>4

-----------------------------------------------------------------------------
(* The ring buffer.                                                        *)

NewSegment(store0, data) ==
    [seq |-> store0.next_seq, first |-> data.first, frames |-> data.frames]

(* What Add leaves at each place: the old segments moved down by one when  *)
(* the buffer was full, then the new one.                                  *)
LEMMA AddResult ==
    ASSUME NEW st \in Store, Len(st.segments) <= MaxSegments,
           NEW data \in SegmentData
    PROVE  LET n == Len(st.segments)
               k == IF n = MaxSegments THEN 1 ELSE 0
           IN  /\ Add(st, data) \in Store
               /\ Add(st, data).next_seq = st.next_seq + 1
               /\ Len(Add(st, data).segments) = n + 1 - k
               /\ \A i \in 1..(n + 1 - k) :
                     Add(st, data).segments[i] =
                         IF i = n + 1 - k THEN NewSegment(st, data)
                         ELSE st.segments[i + k]
<1> USE MaxSegmentsAssumption
<1> DEFINE n == Len(st.segments)
           k == IF n = MaxSegments THEN 1 ELSE 0
           new == NewSegment(st, data)
           long == Append(st.segments, new)
<1> SUFFICES /\ Add(st, data) \in Store
             /\ Add(st, data).next_seq = st.next_seq + 1
             /\ Len(Add(st, data).segments) = n + 1 - k
             /\ \A i \in 1..(n + 1 - k) :
                   Add(st, data).segments[i] =
                       IF i = n + 1 - k THEN new ELSE st.segments[i + k]
  OBVIOUS
<1>1. /\ st.segments \in Seq(Segment) /\ st.next_seq \in Nat
      /\ n \in 0..MaxSegments /\ new \in Segment
  BY DEF Store, Segment, SegmentData, NewSegment
<1>2. /\ long \in Seq(Segment) /\ Len(long) = n + 1
      /\ \A i \in 1..n : long[i] = st.segments[i]
      /\ long[n + 1] = new
  BY <1>1
<1>3. Add(st, data) = [segments |-> KeepNewest(long), next_seq |-> st.next_seq + 1]
  BY DEF Add, NewSegment
<1> HIDE DEF long, new
<1>4. CASE n = MaxSegments
  <2>1. KeepNewest(long) = SubSeq(long, 2, n + 1)
    <3>1. Len(long) > MaxSegments /\ Len(long) - MaxSegments + 1 = 2
      BY <1>1, <1>2, <1>4
    <3> QED BY <1>2, <3>1, Zenon DEF KeepNewest
  <2>2. /\ SubSeq(long, 2, n + 1) \in Seq(Segment)
        /\ Len(SubSeq(long, 2, n + 1)) = n
        /\ \A i \in 1..n : SubSeq(long, 2, n + 1)[i] = long[i + 1]
    BY <1>1, <1>2
  <2>3. k = 1 /\ n + 1 - k = n
    BY <1>1, <1>4
  <2>4. \A i \in 1..n : SubSeq(long, 2, n + 1)[i] =
                            IF i = n THEN new ELSE st.segments[i + 1]
    BY <1>1, <1>2, <2>2
  <2> HIDE DEF n, k
  <2> QED BY <1>1, <1>3, <2>1, <2>2, <2>3, <2>4 DEF Store, new
<1>5. CASE n # MaxSegments
  <2>1. KeepNewest(long) = long
    <3>1. ~ (Len(long) > MaxSegments)
      BY <1>1, <1>2, <1>5
    <3> QED BY <3>1 DEF KeepNewest
  <2>2. k = 0 /\ n + 1 - k = n + 1
    BY <1>1, <1>5
  <2>3. \A i \in 1..(n + 1) : long[i] = IF i = n + 1 THEN new ELSE st.segments[i + 0]
    BY <1>1, <1>2
  <2> HIDE DEF n, k
  <2> QED BY <1>1, <1>2, <1>3, <2>1, <2>2, <2>3 DEF Store, new
<1> QED BY <1>4, <1>5

(* A function that takes each value from the one before; it exists.        *)
Recurs(g, h, base, n) == g[0] = base /\ \A k \in 1..n : g[k] = h[g[k - 1]]

LEMMA RecursionExists ==
    ASSUME NEW A, NEW n \in Nat, NEW h \in [A -> A], NEW base \in A
    PROVE  \E g \in [0..n -> A] : Recurs(g, h, base, n)
<1> DEFINE Built(m) == \E g \in [0..m -> A] : g[0] = base /\ \A k \in 1..m : g[k] = h[g[k - 1]]
           T == {m \in Nat : Built(m)}
<1>1. Built(0)
  <2> DEFINE g == [k \in 0..0 |-> base]
  <2>1. g \in [0..0 -> A] /\ g[0] = base /\ 1..0 = {}
    OBVIOUS
  <2> QED BY <2>1
<1>2. ASSUME NEW m \in Nat, Built(m) PROVE Built(m + 1)
  <2>1. PICK g \in [0..m -> A] : g[0] = base /\ \A k \in 1..m : g[k] = h[g[k - 1]]
    BY <1>2
  <2> DEFINE e == [k \in 0..(m + 1) |-> IF k = m + 1 THEN h[g[m]] ELSE g[k]]
  <2>2. m \in 0..m /\ m + 1 \in 0..(m + 1) /\ (m + 1) - 1 = m /\ 0 \in 0..(m + 1) /\ 0 # m + 1
    OBVIOUS
  <2>3. \A k \in 0..(m + 1) : k # m + 1 => k \in 0..m
    OBVIOUS
  <2>4. e \in [0..(m + 1) -> A]
    BY <2>1, <2>2, <2>3
  <2>5. e[0] = base
    BY <2>1, <2>2
  <2>6. ASSUME NEW k \in 1..(m + 1) PROVE e[k] = h[e[k - 1]]
    <3>1. k \in 0..(m + 1) /\ k - 1 \in 0..(m + 1) /\ k - 1 # m + 1
      OBVIOUS
    <3>2. e[k - 1] = g[k - 1]
      BY <3>1
    <3>3. CASE k = m + 1
      BY <2>2, <3>1, <3>2, <3>3
    <3>4. CASE k # m + 1
      <4>1. k \in 1..m /\ e[k] = g[k]
        BY <3>1, <3>4
      <4> QED BY <2>1, <3>2, <4>1
    <3> QED BY <3>3, <3>4
  <2> HIDE DEF e
  <2> QED BY <2>4, <2>5, <2>6
<1>3. T = Nat
  <2> HIDE DEF Built
  <2>1. T \in SUBSET Nat /\ 0 \in T
    BY <1>1
  <2>2. ASSUME NEW m \in T PROVE m + 1 \in T
    BY <1>2
  <2> HIDE DEF T
  <2> QED BY <2>1, <2>2, Inductive
<1>4. Built(n)
  <2> HIDE DEF Built
  <2> QED BY <1>3
<1> QED BY <1>4 DEF Recurs
=============================================================================
