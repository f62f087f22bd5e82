-------------------------- MODULE AudioPathProofs --------------------------
(***************************************************************************)
(* Proofs about TsMuxer, for any lengths of PES and packets and any number *)
(* of frames, and about the stations of the audio together.  A segment is  *)
(* laid out from its first packet on, and every PES appended keeps it so;  *)
(* the segments handed over are linked by their counters.  What            *)
(* write_pes_to_ts leaves is an induction on the turns of its loop.        *)
(***************************************************************************)
EXTENDS MCAudioPath, PesAssemblerProofs, TranscoderProofs, SequenceTheorems

-----------------------------------------------------------------------------
(* Packets.                                                                *)

Counters == 0..(CcMod - 1)
Writing == [packets : Seq(TsPacket), cc : [Pid -> Counters]]
After(c) == (c + 1) % CcMod

(* A packet is full.                                                       *)
Fits(p) ==
    /\ p.payload > 0 /\ p.start + p.payload = PacketSize
    /\ p.start = IF p.afl = -1 THEN 4 ELSE 5 + p.afl
    /\ p.pcr => p.afl >= 7

LEMMA MuxerConstants ==
    /\ CcMod \in Nat /\ CcMod >= 1 /\ 0 \in Counters
    /\ PacketSize \in Nat /\ PacketSize > 12 /\ TableLength \in Nat /\ TableLength > 0
    /\ PacketSize > 4 + TableLength
    /\ \A c \in Counters : After(c) \in Counters
<1>1. CcMod \in Nat /\ CcMod >= 1
  BY TsMuxerAssumption
<1>2. ASSUME NEW c \in Counters PROVE After(c) \in Counters
  <2>1. c + 1 \in Nat /\ CcMod \in Nat \ {0}
    BY <1>1, <1>2 DEF Counters
  <2>2. (c + 1) % CcMod \in 0..(CcMod - 1)
    BY <2>1, Quotient
  <2> QED BY <2>2 DEF After, Counters
<1>3. 0 \in Counters
  BY <1>1 DEF Counters
<1> QED BY <1>1, <1>2, <1>3, TsMuxerAssumption

(* What a packet of a PES is.                                              *)
IsPesPacket(p, pid, len, off, c, pcr, f) ==
    /\ p \in TsPacket /\ Fits(p)
    /\ p.pid = pid /\ p.cc = c /\ p.frame = f /\ p.of = len /\ p.tag = FALSE
    /\ p.offset = off /\ p.payload \in Nat /\ p.payload >= 1 /\ off + p.payload <= len
    /\ p.pusi <=> off = 0
    /\ p.pcr <=> off = 0 /\ pcr

LEMMA PesPacketIs ==
    ASSUME NEW pid \in Pid, NEW len \in Nat, NEW off \in Nat, off < len,
           NEW c \in Counters, NEW pcr \in BOOLEAN, NEW f \in Nat
    PROVE  IsPesPacket(PesPacket(pid, len, off, c, pcr, f), pid, len, off, c, pcr, f)
<1> DEFINE withPcr == off = 0 /\ pcr
           header == IF withPcr THEN 12 ELSE 4
           space == PacketSize - header
           payload == IF len - off < space THEN len - off ELSE space
           stuffing == space - payload
           afl == IF withPcr THEN 7 + stuffing ELSE stuffing - 1
           start == header + stuffing
           r == [pid |-> pid, cc |-> c, pusi |-> off = 0, pcr |-> withPcr, frame |-> f,
                 afl |-> afl, start |-> start, payload |-> payload,
                 offset |-> off, of |-> len, tag |-> FALSE]
<1>1. PesPacket(pid, len, off, c, pcr, f) = r
  BY DEF PesPacket
<1>2. withPcr \in BOOLEAN /\ (off = 0) \in BOOLEAN
  OBVIOUS
<1>3. header \in {4, 12} /\ (withPcr => header = 12) /\ (~withPcr => header = 4)
  OBVIOUS
<1> HIDE DEF header
<1>4. space \in Nat /\ space >= 1 /\ header + space = PacketSize /\ space <= PacketSize
  BY <1>3, MuxerConstants
<1> HIDE DEF space
<1>5. payload \in Nat /\ payload >= 1 /\ payload <= space /\ off + payload <= len
  BY <1>4
<1> HIDE DEF payload
<1>6. stuffing \in Nat /\ payload + stuffing = space
  BY <1>4, <1>5
<1> HIDE DEF stuffing
<1>7. start \in 0..PacketSize /\ start + payload = PacketSize /\ payload \in 0..PacketSize
  BY <1>3, <1>4, <1>5, <1>6, MuxerConstants
<1>8. /\ afl \in -1..PacketSize /\ start = IF afl = -1 THEN 4 ELSE 5 + afl
      /\ withPcr => afl >= 7
  BY <1>3, <1>4, <1>5, <1>6, MuxerConstants
<1> HIDE DEF start, afl, withPcr
<1>9. r \in TsPacket
  BY <1>2, <1>5, <1>7, <1>8 DEF TsPacket, Counters
<1>10. Fits(r)
  BY <1>5, <1>7, <1>8 DEF Fits
<1>11. /\ r.pid = pid /\ r.cc = c /\ r.frame = f /\ r.of = len /\ r.tag = FALSE
       /\ r.offset = off /\ r.payload = payload
       /\ r.pusi <=> off = 0
       /\ r.pcr <=> withPcr
  OBVIOUS
<1> HIDE DEF r
<1>12. IsPesPacket(r, pid, len, off, c, pcr, f)
  BY <1>5, <1>9, <1>10, <1>11 DEF withPcr, IsPesPacket
<1> QED BY <1>1, <1>12

(* A packet more.                                                          *)
LEMMA PutIs ==
    ASSUME NEW w \in Writing, NEW p \in TsPacket
    PROVE  /\ Put(w, p) \in Writing
           /\ Len(w.packets) \in Nat /\ Len(Put(w, p).packets) = Len(w.packets) + 1
           /\ \A i \in 1..Len(w.packets) : Put(w, p).packets[i] = w.packets[i]
           /\ Put(w, p).packets[Len(w.packets) + 1] = p
           /\ Put(w, p).cc[p.pid] = After(w.cc[p.pid])
           /\ \A q \in Pid : q # p.pid => Put(w, p).cc[q] = w.cc[q]
<1> DEFINE c == After(w.cc[p.pid])
<1>1. w.packets \in Seq(TsPacket) /\ w.cc \in [Pid -> Counters] /\ p.pid \in Pid
  BY DEF Writing, TsPacket
<1>2. c \in Counters
  BY <1>1, MuxerConstants
<1>3. Put(w, p) = [packets |-> Append(w.packets, p), cc |-> [w.cc EXCEPT ![p.pid] = c]]
  BY DEF Put, After
<1> HIDE DEF c
<1>4. /\ Append(w.packets, p) \in Seq(TsPacket)
      /\ Len(Append(w.packets, p)) = Len(w.packets) + 1
      /\ \A i \in 1..Len(w.packets) : Append(w.packets, p)[i] = w.packets[i]
      /\ Append(w.packets, p)[Len(w.packets) + 1] = p /\ Len(w.packets) \in Nat
  BY <1>1, AppendProperties, LenProperties
<1>5. /\ [w.cc EXCEPT ![p.pid] = c] \in [Pid -> Counters]
      /\ [w.cc EXCEPT ![p.pid] = c][p.pid] = c
      /\ \A q \in Pid : q # p.pid => [w.cc EXCEPT ![p.pid] = c][q] = w.cc[q]
  BY <1>1, <1>2
<1>6. Put(w, p) \in Writing
  BY <1>3, <1>4, <1>5 DEF Writing
<1>7. Put(w, p).packets = Append(w.packets, p) /\ Put(w, p).cc = [w.cc EXCEPT ![p.pid] = c]
  BY <1>3
<1> QED BY <1>4, <1>5, <1>6, <1>7 DEF c

-----------------------------------------------------------------------------
(* The loop of write_pes_to_ts.                                            *)

(* v is w and the packets of the first off bytes of a PES.                 *)
PesSoFar(w, v, off, pid, len, pcr, f) ==
    LET n == Len(w.packets)
        m == Len(v.packets)
        s == v.packets
    IN  /\ v \in Writing /\ off \in 0..len /\ n <= m
        /\ \A i \in 1..n : s[i] = w.packets[i]
        /\ \A i \in (n + 1)..m :
              /\ s[i].pid = pid /\ s[i].frame = f /\ s[i].of = len /\ Fits(s[i])
              /\ s[i].pcr <=> i = n + 1 /\ pcr
              /\ s[i].pusi <=> i = n + 1
              /\ s[i].offset = 0 <=> i = n + 1
              /\ s[i].cc = IF i = n + 1 THEN w.cc[pid] ELSE After(s[i - 1].cc)
              /\ i > n + 1 => s[i - 1].offset + s[i - 1].payload = s[i].offset
        /\ IF m = n THEN off = 0 /\ v.cc[pid] = w.cc[pid]
           ELSE off = s[m].offset + s[m].payload /\ v.cc[pid] = After(s[m].cc)
        /\ \A i \in (n + 1)..(m - 1) : s[i].offset + s[i].payload < len
        /\ off = 0 <=> m = n
        /\ \A q \in Pid : q # pid => v.cc[q] = w.cc[q]

LEMMA TurnKeeps ==
    ASSUME NEW w \in Writing, NEW v \in Writing, NEW pid \in Pid, NEW len \in Nat,
           NEW pcr \in BOOLEAN, NEW f \in Nat, NEW off \in Nat, off < len,
           PesSoFar(w, v, off, pid, len, pcr, f),
           NEW p, p = PesPacket(pid, len, off, v.cc[pid], pcr, f)
    PROVE  /\ PesSoFar(w, Put(v, p), off + p.payload, pid, len, pcr, f)
           /\ Put(v, p) \in Writing /\ p.payload \in Nat /\ p.payload >= 1
           /\ off + p.payload <= len
<1> DEFINE u == Put(v, p)
           n == Len(w.packets)
           m == Len(v.packets)
           s == v.packets
           t == u.packets
<1>1. v.cc[pid] \in Counters
  BY DEF Writing
<1>2. /\ p \in TsPacket /\ Fits(p)
      /\ p.pid = pid /\ p.cc = v.cc[pid] /\ p.frame = f /\ p.of = len /\ p.tag = FALSE
      /\ p.offset = off /\ p.payload \in Nat /\ p.payload >= 1 /\ off + p.payload <= len
      /\ p.pusi <=> off = 0
      /\ p.pcr <=> off = 0 /\ pcr
  <2>1. IsPesPacket(p, pid, len, off, v.cc[pid], pcr, f)
    BY <1>1, PesPacketIs
  <2> QED BY <2>1 DEF IsPesPacket
<1>3. /\ u \in Writing /\ m \in Nat /\ Len(t) = m + 1
      /\ \A i \in 1..m : t[i] = s[i]
      /\ t[m + 1] = p /\ u.cc[pid] = After(v.cc[pid])
      /\ \A q \in Pid : q # pid => u.cc[q] = v.cc[q]
  BY <1>2, PutIs
<1>4. /\ n <= m /\ \A i \in 1..n : s[i] = w.packets[i]
      /\ \A i \in (n + 1)..m :
              /\ s[i].pid = pid /\ s[i].frame = f /\ s[i].of = len /\ Fits(s[i])
              /\ s[i].pcr <=> i = n + 1 /\ pcr
              /\ s[i].pusi <=> i = n + 1
              /\ s[i].offset = 0 <=> i = n + 1
              /\ s[i].cc = IF i = n + 1 THEN w.cc[pid] ELSE After(s[i - 1].cc)
              /\ i > n + 1 => s[i - 1].offset + s[i - 1].payload = s[i].offset
      /\ IF m = n THEN off = 0 /\ v.cc[pid] = w.cc[pid]
         ELSE off = s[m].offset + s[m].payload /\ v.cc[pid] = After(s[m].cc)
      /\ \A i \in (n + 1)..(m - 1) : s[i].offset + s[i].payload < len
      /\ off = 0 <=> m = n
      /\ \A q \in Pid : q # pid => v.cc[q] = w.cc[q]
  BY DEF PesSoFar
<1>5. n \in Nat
  <2>1. w.packets \in Seq(TsPacket)
    BY DEF Writing
  <2> QED BY <2>1, LenProperties
<1> HIDE DEF u, n, m, s, t
<1>6. \A i \in 1..n : t[i] = w.packets[i]
  BY <1>3, <1>4, <1>5
<1>7. ASSUME NEW i \in (n + 1)..(m + 1)
      PROVE  /\ t[i].pid = pid /\ t[i].frame = f /\ t[i].of = len /\ Fits(t[i])
             /\ t[i].pcr <=> i = n + 1 /\ pcr
             /\ t[i].pusi <=> i = n + 1
             /\ t[i].offset = 0 <=> i = n + 1
             /\ t[i].cc = IF i = n + 1 THEN w.cc[pid] ELSE After(t[i - 1].cc)
             /\ i > n + 1 => t[i - 1].offset + t[i - 1].payload = t[i].offset
  <2>1. CASE i \in (n + 1)..m
    <3>1. t[i] = s[i] /\ i \in 1..m
      BY <1>3, <1>5, <2>1
    <3>2. i # n + 1 => i - 1 \in 1..m /\ i > n + 1
      BY <1>3, <1>5, <2>1
    <3>3. i # n + 1 => t[i - 1] = s[i - 1]
      BY <1>3, <3>2
    <3> QED BY <1>4, <2>1, <3>1, <3>2, <3>3
  <2>2. CASE i = m + 1
    <3>1. t[i] = p /\ (i = n + 1 <=> m = n) /\ (i > n + 1 => m # n)
      BY <1>3, <1>4, <1>5, <2>2
    <3>2. m # n => m \in 1..m /\ i - 1 = m
      BY <1>3, <1>4, <1>5, <2>2
    <3>3. m # n => t[i - 1] = s[m]
      BY <1>3, <3>2
    <3>4. p.cc = IF m = n THEN w.cc[pid] ELSE After(s[m].cc)
      BY <1>2, <1>4
    <3>5. m # n => s[m].offset + s[m].payload = p.offset
      BY <1>2, <1>4
    <3>6. /\ p.pcr <=> m = n /\ pcr
          /\ p.pusi <=> m = n
          /\ p.offset = 0 <=> m = n
      BY <1>2, <1>4
    <3> QED BY <1>2, <3>1, <3>3, <3>4, <3>5, <3>6
  <2>3. i \in (n + 1)..m \/ i = m + 1
    BY <1>3, <1>4, <1>5
  <2> QED BY <2>1, <2>2, <2>3
<1>8. off + p.payload = t[m + 1].offset + t[m + 1].payload /\ u.cc[pid] = After(t[m + 1].cc)
  BY <1>2, <1>3
<1>9. ASSUME NEW i \in (n + 1)..m PROVE t[i].offset + t[i].payload < len
  <2>1. t[i] = s[i]
    BY <1>3, <1>5
  <2>2. CASE i = m
    <3>1. m # n
      BY <1>5, <2>2
    <3>2. off = s[m].offset + s[m].payload
      BY <1>4, <3>1
    <3> QED BY <2>1, <2>2, <3>2
  <2>3. CASE i # m
    <3>1. i \in (n + 1)..(m - 1)
      BY <1>3, <1>5, <2>3
    <3> QED BY <1>4, <2>1, <3>1
  <2> QED BY <2>2, <2>3
<1>10. /\ off + p.payload \in 0..len /\ ~(off + p.payload = 0) /\ ~(m + 1 = n) /\ n <= m + 1
       /\ (m + 1) - 1 = m
  BY <1>2, <1>3, <1>4, <1>5
<1>11. \A q \in Pid : q # pid => u.cc[q] = w.cc[q]
  BY <1>3, <1>4
<1> DEFINE o == off + p.payload
<1>12. PesSoFar(w, u, o, pid, len, pcr, f)
  <2>1. u \in Writing /\ Len(u.packets) = m + 1 /\ u.packets = t /\ Len(w.packets) = n
    BY <1>3 DEF t, n
  <2> HIDE DEF o
  <2>2. /\ o \in 0..len /\ o # 0 /\ m + 1 # n /\ n <= m + 1 /\ (m + 1) - 1 = m
        /\ o = t[m + 1].offset + t[m + 1].payload
    BY <1>8, <1>10 DEF o
  <2> QED BY <1>6, <1>7, <1>8, <1>9, <1>11, <2>1, <2>2 DEF PesSoFar
<1> QED BY <1>2, <1>3, <1>12 DEF u

LEMMA WritePesIs ==
    ASSUME NEW w \in Writing, NEW pid \in Pid, NEW len \in Nat, NEW pcr \in BOOLEAN,
           NEW f \in Nat
    PROVE  /\ WritePes(w, pid, len, pcr, f) \in Writing
           /\ PesSoFar(w, WritePes(w, pid, len, pcr, f), len, pid, len, pcr, f)
<1> DEFINE Sound(s) == PesSoFar(w, s.w, s.off, pid, len, pcr, f)
           A == {s \in [off : 0..len, w : Writing] : Sound(s)}
           base == [off |-> 0, w |-> w]
           OneTurn(s) == PesTurn(s, pid, len, pcr, f)
           h == [s \in A |-> OneTurn(s)]
           Body(g) == [k \in 0..len |-> IF k = 0 THEN base ELSE OneTurn(g[k - 1])]
           turn == CHOOSE g : g = Body(g)
<1>1. WritePes(w, pid, len, pcr, f) = turn[len].w
  BY DEF WritePes
<1>2. base \in A
  <2>1. base \in [off : 0..len, w : Writing] /\ base.w = w /\ base.off = 0
    OBVIOUS
  <2>2. PesSoFar(w, w, 0, pid, len, pcr, f)
    <3> DEFINE n == Len(w.packets)
    <3>1. n \in Nat
      <4>1. w.packets \in Seq(TsPacket)
        BY DEF Writing
      <4> QED BY <4>1, LenProperties
    <3>2. n <= n /\ (n + 1)..n = {} /\ (n + 1)..(n - 1) = {} /\ 0 \in 0..len
      <4> HIDE DEF n
      <4> QED BY <3>1
    <3> HIDE DEF n
    <3>3. Len(w.packets) = n
      BY DEF n
    <3> QED BY <3>2, <3>3 DEF PesSoFar
  <2> HIDE DEF base
  <2> QED BY <2>1, <2>2
<1>3. ASSUME NEW s \in A
      PROVE  /\ OneTurn(s) \in A
             /\ s.off < len => OneTurn(s).off >= s.off + 1
             /\ s.off >= len => OneTurn(s) = s
  <2>1. s \in [off : 0..len, w : Writing] /\ Sound(s)
    OBVIOUS
  <2>2. s.off \in Nat /\ s.off \in 0..len /\ s.w \in Writing
    BY <2>1
  <2>3. CASE s.off >= len
    <3>1. OneTurn(s) = s /\ ~(s.off < len)
      BY <2>2, <2>3 DEF PesTurn
    <3> HIDE DEF A, OneTurn
    <3> QED BY <3>1
  <2>4. CASE s.off < len
    <3> DEFINE p == PesPacket(pid, len, s.off, s.w.cc[pid], pcr, f)
               o == s.off + p.payload
               u == Put(s.w, p)
    <3>1. /\ PesSoFar(w, u, o, pid, len, pcr, f)
          /\ u \in Writing /\ p.payload \in Nat /\ p.payload >= 1 /\ o <= len
      <4> DEFINE z == s.off
                 v == s.w
      <4>1. z \in Nat /\ z < len /\ v \in Writing /\ PesSoFar(w, v, z, pid, len, pcr, f)
        BY <2>1, <2>2, <2>4
      <4>2. p = PesPacket(pid, len, z, v.cc[pid], pcr, f)
        OBVIOUS
      <4> HIDE DEF z, v, p
      <4>3. /\ PesSoFar(w, Put(v, p), z + p.payload, pid, len, pcr, f)
            /\ Put(v, p) \in Writing /\ p.payload \in Nat /\ p.payload >= 1
            /\ z + p.payload <= len
        BY <4>1, <4>2, TurnKeeps
      <4> QED BY <4>3 DEF z, v
    <3>2. OneTurn(s) = [off |-> o, w |-> u]
      BY <2>2, <2>4 DEF PesTurn
    <3> HIDE DEF p, u, OneTurn
    <3>3. o \in 0..len /\ o >= s.off + 1
      BY <2>2, <3>1
    <3> HIDE DEF o
    <3>4. OneTurn(s) \in [off : 0..len, w : Writing] /\ OneTurn(s).off = o /\ OneTurn(s).w = u
      BY <3>1, <3>2, <3>3
    <3>5. Sound(OneTurn(s))
      BY <3>1, <3>4
    <3> HIDE DEF Sound
    <3> QED BY <2>2, <2>4, <3>3, <3>4, <3>5
  <2> QED BY <2>2, <2>3, <2>4
<1> HIDE DEF A, OneTurn, base
<1>4. h \in [A -> A]
  BY <1>3
<1>5. PICK g \in [0..len -> A] : g[0] = base /\ \A k \in 1..len : g[k] = h[g[k - 1]]
  <2> HIDE DEF h
  <2>1. PICK g \in [0..len -> A] : Recurs(g, h, base, len)
    BY <1>2, <1>4, RecursionExists
  <2> QED BY <2>1 DEF Recurs
<1>6. \A k \in 1..len : k \in 0..len /\ k # 0 /\ k - 1 \in 0..len
  OBVIOUS
<1>7. \E e : e = Body(e)
  <2>1. ASSUME NEW k \in 0..len PROVE g[k] = Body(g)[k]
    <3>1. CASE k = 0
      BY <1>5, <3>1
    <3>2. CASE k # 0
      <4>1. k \in 1..len
        BY <3>2
      <4>2. g[k - 1] \in A
        BY <1>5, <1>6, <4>1
      <4>3. g[k] = OneTurn(g[k - 1])
        BY <1>5, <4>1, <4>2
      <4> QED BY <3>2, <4>3
    <3> QED BY <3>1, <3>2
  <2>2. g = Body(g)
    <3>1. Body(g) = [k \in 0..len |-> Body(g)[k]] /\ g = [k \in 0..len |-> g[k]]
      BY <1>5
    <3> HIDE DEF Body
    <3> QED BY <2>1, <3>1
  <2> QED BY <2>2
<1>8. turn = Body(turn)
  <2> HIDE DEF Body
  <2> QED BY <1>7
<1>9. turn[0] = base /\ \A k \in 1..len : turn[k] = OneTurn(turn[k - 1])
  <2>1. ASSUME NEW k \in 0..len PROVE Body(turn)[k] = IF k = 0 THEN base ELSE OneTurn(turn[k - 1])
    <3> HIDE DEF turn
    <3> QED OBVIOUS
  <2>2. \A k \in 0..len : turn[k] = IF k = 0 THEN base ELSE OneTurn(turn[k - 1])
    <3> HIDE DEF turn, Body
    <3> QED BY <1>8, <2>1
  <2> HIDE DEF turn, Body
  <2>3. 0 \in 0..len
    OBVIOUS
  <2> QED BY <1>6, <2>2, <2>3
<1> HIDE DEF turn, Body
<1> DEFINE P(k) == turn[k] \in A /\ (turn[k].off >= k \/ turn[k].off = len)
           T == {k \in Nat : k <= len => P(k)}
<1>10. \A s \in A : s.off \in 0..len
  BY DEF A
<1>11. P(0)
  <2>1. base.off = 0
    BY DEF base
  <2> QED BY <1>2, <1>9, <2>1
<1>12. ASSUME NEW k \in Nat, P(k), k + 1 <= len PROVE P(k + 1)
  <2>1. k + 1 \in 1..len /\ (k + 1) - 1 = k
    BY <1>12
  <2>2. turn[k + 1] = OneTurn(turn[k])
    BY <1>9, <2>1
  <2> DEFINE s == turn[k]
             t == OneTurn(s)
  <2>3. s \in A /\ (s.off >= k \/ s.off = len)
    BY <1>12
  <2>4. t \in A /\ (s.off < len => t.off >= s.off + 1) /\ (s.off >= len => t = s)
    BY <1>3, <2>3
  <2>5. turn[k + 1] = t
    BY <2>2
  <2> HIDE DEF s, t
  <2>6. s.off \in 0..len /\ t.off \in 0..len
    BY <1>10, <2>3, <2>4
  <2>7. t.off >= k + 1 \/ t.off = len
    <3>1. CASE s.off < len
      BY <2>3, <2>4, <2>6, <3>1
    <3>2. CASE s.off >= len
      BY <2>4, <2>6, <3>2
    <3> QED BY <2>6, <3>1, <3>2
  <2> QED BY <2>4, <2>5, <2>7
<1>13. T = Nat
  <2> HIDE DEF P
  <2>1. T \in SUBSET Nat /\ 0 \in T
    BY <1>11
  <2>2. ASSUME NEW k \in T PROVE k + 1 \in T
    <3>1. k \in Nat /\ (k <= len => P(k))
      OBVIOUS
    <3>2. k + 1 <= len => k <= len
      BY <3>1
    <3> QED BY <1>12, <3>1, <3>2
  <2> HIDE DEF T
  <2> QED BY <2>1, <2>2, Inductive
<1>14. P(len)
  <2> HIDE DEF P
  <2>1. len <= len
    OBVIOUS
  <2> QED BY <1>13, <2>1
<1> DEFINE s == turn[len]
<1>15. s \in A /\ s.off = len
  <2>1. s \in A /\ (s.off >= len \/ s.off = len)
    BY <1>14
  <2> HIDE DEF s
  <2> QED BY <1>10, <2>1
<1> HIDE DEF s
<1>16. s.w \in Writing /\ PesSoFar(w, s.w, len, pid, len, pcr, f)
  BY <1>15 DEF A
<1> QED BY <1>1, <1>16 DEF s
-----------------------------------------------------------------------------
(* A segment.                                                              *)

(* Packet i of a segment with lead packets before its audio.               *)
Placed(seg, i, lead, first) ==
    /\ Fits(seg[i])
    /\ seg[i].pusi <=> seg[i].offset = 0
    /\ seg[i].pcr <=> i = lead + 1
    /\ i > 2 => seg[i].pid = IF i <= lead THEN "META" ELSE "AUDIO"
    /\ i \in 3..(lead + 1) => seg[i].frame = first
    /\ seg[i].offset > 0 => /\ i > 3 /\ i # lead + 1
                            /\ seg[i - 1].offset + seg[i - 1].payload = seg[i].offset
    /\ \/ seg[i].offset + seg[i].payload = seg[i].of
       \/ i < Len(seg) /\ seg[i + 1].offset > 0
    /\ i \in 3..lead => seg[i].cc = IF seg[i].pusi THEN 0 ELSE After(seg[i - 1].cc)
    /\ i > lead + 1 => seg[i].cc = After(seg[i - 1].cc)

(* The frames in it, count of them from the first on.                      *)
Framed(seg, lead, first, count) ==
    /\ \A i \in (lead + 1)..Len(seg) : seg[i].frame \in first..(first + count - 1)
    /\ \A i, j \in (lead + 1)..Len(seg) : i < j /\ seg[j].pusi => seg[i].frame < seg[j].frame
    /\ \A g \in first..(first + count - 1) :
          \E i \in (lead + 1)..Len(seg) : seg[i].pusi /\ seg[i].frame = g

LaidOut(seg, lead, first, count) ==
    /\ seg \in Seq(TsPacket) /\ lead \in 2..Len(seg) /\ lead \in Nat
    /\ count > 0 <=> lead < Len(seg)
    /\ seg[1].pid = "PAT" /\ seg[2].pid = "PMT"
    /\ seg[2].tag <=> lead > 2
    /\ \A i \in 1..Len(seg) : Placed(seg, i, lead, first)
    /\ Framed(seg, lead, first, count)

LEMMA PacketTypes ==
    ASSUME NEW seg \in Seq(TsPacket)
    PROVE  /\ Len(seg) \in Nat
           /\ \A i \in 1..Len(seg) :
                 /\ seg[i] \in TsPacket /\ seg[i].offset \in Nat /\ seg[i].payload \in Nat
                 /\ seg[i].cc \in Counters /\ seg[i].frame \in Nat /\ seg[i].pid \in Pid
                 /\ seg[i].of \in Nat
<1>1. Len(seg) \in Nat /\ \A i \in 1..Len(seg) : seg[i] \in TsPacket
  BY LenProperties
<1>2. ASSUME NEW p \in TsPacket
      PROVE  /\ p.offset \in Nat /\ p.payload \in Nat /\ p.cc \in Counters /\ p.frame \in Nat
             /\ p.pid \in Pid /\ p.of \in Nat
  <2>1. p.payload \in 0..PacketSize /\ PacketSize \in Nat
    BY MuxerConstants DEF TsPacket
  <2>2. p.payload \in Nat
    BY <2>1
  <2> QED BY <2>2 DEF TsPacket, Counters
<1> QED BY <1>1, <1>2

(* The packets of an audio PES behind those that are there.                *)
Extended(w, v, lead, first, count) ==
    /\ LaidOut(v.packets, lead, first, count + 1)
    /\ v.cc["AUDIO"] = After(v.packets[Len(v.packets)].cc)
    /\ Len(w.packets) < Len(v.packets)
    /\ \A i \in 1..Len(w.packets) : v.packets[i] = w.packets[i]
    /\ count = 0 => v.packets[lead + 1].cc = w.cc["AUDIO"]

LEMMA AudioAppended ==
    ASSUME NEW w \in Writing, NEW v \in Writing, NEW len \in Nat \ {0}, NEW pcr \in BOOLEAN,
           NEW lead, NEW first \in Nat, NEW count \in Nat, NEW f, f = first + count,
           PesSoFar(w, v, len, "AUDIO", len, pcr, f),
           LaidOut(w.packets, lead, first, count), pcr <=> count = 0,
           count > 0 => w.cc["AUDIO"] = After(w.packets[Len(w.packets)].cc)
    PROVE  Extended(w, v, lead, first, count)
<1> DEFINE s == w.packets
           t == v.packets
           n == Len(s)
           m == Len(t)
<1>1. /\ s \in Seq(TsPacket) /\ t \in Seq(TsPacket) /\ n \in Nat /\ m \in Nat /\ f \in Nat
      /\ \A i \in 1..m : t[i].offset \in Nat /\ t[i].payload \in Nat
      /\ \A i \in 1..n : s[i].offset \in Nat /\ s[i].payload \in Nat
  <2>1. w.packets \in Seq(TsPacket) /\ v.packets \in Seq(TsPacket)
    BY DEF Writing
  <2> QED BY <2>1, PacketTypes
<1>2. /\ n <= m /\ \A i \in 1..n : t[i] = s[i]
      /\ \A i \in (n + 1)..m :
              /\ t[i].pid = "AUDIO" /\ t[i].frame = f /\ t[i].of = len /\ Fits(t[i])
              /\ t[i].pcr <=> i = n + 1 /\ pcr
              /\ t[i].pusi <=> i = n + 1
              /\ t[i].offset = 0 <=> i = n + 1
              /\ t[i].cc = IF i = n + 1 THEN w.cc["AUDIO"] ELSE After(t[i - 1].cc)
              /\ i > n + 1 => t[i - 1].offset + t[i - 1].payload = t[i].offset
      /\ IF m = n THEN len = 0 /\ v.cc["AUDIO"] = w.cc["AUDIO"]
         ELSE len = t[m].offset + t[m].payload /\ v.cc["AUDIO"] = After(t[m].cc)
      /\ \A i \in (n + 1)..(m - 1) : t[i].offset + t[i].payload < len
      /\ len = 0 <=> m = n
  BY DEF PesSoFar
<1>3. /\ lead \in Nat /\ lead >= 2 /\ lead <= n /\ (count > 0 <=> lead < n)
      /\ s[1].pid = "PAT" /\ s[2].pid = "PMT" /\ (s[2].tag <=> lead > 2)
      /\ \A i \in 1..n : Placed(s, i, lead, first)
      /\ Framed(s, lead, first, count)
  BY <1>1 DEF LaidOut
<1>4. count > 0 => w.cc["AUDIO"] = After(s[n].cc)
  OBVIOUS
<1> HIDE DEF s, t, n, m
<1>5. m > n /\ n >= 2 /\ len = t[m].offset + t[m].payload /\ v.cc["AUDIO"] = After(t[m].cc)
  BY <1>1, <1>2, <1>3
<1>6. count = 0 <=> n = lead
  BY <1>1, <1>3
<1>7. ASSUME NEW i \in 1..n PROVE Placed(t, i, lead, first)
  <2>1. Placed(s, i, lead, first) /\ t[i] = s[i]
    BY <1>2, <1>3
  <2>2. s[i].offset > 0 => i - 1 \in 1..n
    <3>1. s[i].offset > 0 => i > 3
      BY <2>1 DEF Placed
    <3> QED BY <1>1, <3>1
  <2>3. s[i].offset > 0 => t[i - 1] = s[i - 1]
    BY <1>2, <2>2
  <2>4. i > 2 => i - 1 \in 1..n
    BY <1>1
  <2>5. i > 2 => t[i - 1] = s[i - 1]
    BY <1>2, <2>4
  <2>6. i < n => i + 1 \in 1..n
    BY <1>1
  <2>7. i < n => t[i + 1] = s[i + 1]
    BY <1>2, <2>6
  <2>8. \/ t[i].offset + t[i].payload = t[i].of
        \/ i < m /\ t[i + 1].offset > 0
    BY <1>1, <1>5, <2>1, <2>7 DEF Placed, n
  <2>9. i \in 3..lead => i > 2
    BY <1>3
  <2>10. i > lead + 1 => i > 2
    BY <1>3
  <2> QED BY <2>1, <2>3, <2>5, <2>8, <2>9, <2>10 DEF Placed, m
<1>8. ASSUME NEW i \in (n + 1)..m PROVE Placed(t, i, lead, first)
  <2>1. i \in Nat /\ i \in 1..m /\ i > 2 /\ i > lead /\ i >= n + 1 /\ i <= m
    BY <1>1, <1>3, <1>5
  <2>2. /\ t[i].pid = "AUDIO" /\ t[i].frame = f /\ t[i].of = len /\ Fits(t[i])
        /\ t[i].pcr <=> i = n + 1 /\ pcr
        /\ t[i].pusi <=> i = n + 1
        /\ t[i].offset = 0 <=> i = n + 1
        /\ t[i].cc = IF i = n + 1 THEN w.cc["AUDIO"] ELSE After(t[i - 1].cc)
        /\ i > n + 1 => t[i - 1].offset + t[i - 1].payload = t[i].offset
    BY <1>2
  <2>3. t[i].pcr <=> i = lead + 1
    BY <1>1, <1>3, <1>6, <2>1, <2>2
  <2>4. i \in 3..(lead + 1) => t[i].frame = first
    <3>1. i \in 3..(lead + 1) => i = lead + 1
      BY <1>3, <2>1
    <3>2. i = lead + 1 => f = first
      BY <1>1, <1>3, <1>6, <2>1
    <3> QED BY <2>2, <3>1, <3>2
  <2>5. t[i].offset > 0 => i > 3 /\ i # lead + 1 /\ i > n + 1
    BY <1>1, <1>3, <1>6, <2>1, <2>2
  <2>6. \/ t[i].offset + t[i].payload = t[i].of
        \/ i < m /\ t[i + 1].offset > 0
    <3>1. CASE i = m
      BY <1>5, <2>2, <3>1
    <3>2. CASE i # m
      <4>1. i + 1 \in (n + 1)..m /\ i + 1 # n + 1 /\ i + 1 \in 1..m /\ i < m
        BY <1>1, <2>1, <3>2
      <4>2. ~(t[i + 1].offset = 0) /\ t[i + 1].offset \in Nat
        BY <1>1, <1>2, <4>1
      <4> QED BY <4>1, <4>2
    <3> QED BY <3>1, <3>2
  <2>7. ~(i \in 3..lead) /\ ~(i <= lead)
    BY <1>3, <2>1
  <2>8. i > lead + 1 => t[i].cc = After(t[i - 1].cc)
    <3>1. CASE i = n + 1
      <4>1. i - 1 = n /\ (i > lead + 1 => count > 0)
        BY <1>1, <1>3, <2>1, <3>1
      <4>2. n \in 1..n
        BY <1>1, <1>5
      <4>3. t[n] = s[n]
        BY <1>2, <4>2
      <4> QED BY <1>4, <2>2, <3>1, <4>1, <4>3
    <3>2. CASE i # n + 1
      BY <2>2, <3>2
    <3> QED BY <3>1, <3>2
  <2> QED BY <2>1, <2>2, <2>3, <2>4, <2>5, <2>6, <2>7, <2>8 DEF Placed, m
<1>9. \A i \in 1..m : Placed(t, i, lead, first)
  <2>1. \A i \in 1..m : i \in 1..n \/ i \in (n + 1)..m
    BY <1>1
  <2> QED BY <1>7, <1>8, <2>1
<1>10. Framed(t, lead, first, count + 1)
  <2>0. \A i \in (lead + 1)..m : \/ i \in (lead + 1)..n /\ i \in 1..n
                                \/ i \in (n + 1)..m
    BY <1>1, <1>3
  <2>1. /\ \A i \in (lead + 1)..n : s[i].frame \in first..(first + count - 1)
        /\ \A i, j \in (lead + 1)..n : i < j /\ s[j].pusi => s[i].frame < s[j].frame
        /\ \A g \in first..(first + count - 1) :
              \E i \in (lead + 1)..n : s[i].pusi /\ s[i].frame = g
    BY <1>3 DEF Framed, n
  <2>2. /\ f \in Nat /\ f = first + count /\ first + (count + 1) - 1 = f
        /\ \A x \in first..(first + count - 1) : x \in first..f /\ x < f
        /\ \A x \in first..f : x = f \/ x \in first..(first + count - 1)
        /\ f \in first..f
    BY <1>1
  <2>3. ASSUME NEW i \in (lead + 1)..m PROVE t[i].frame \in first..f
    <3>1. CASE i \in (lead + 1)..n /\ i \in 1..n
      <4>1. t[i] = s[i]
        BY <1>2, <3>1
      <4> QED BY <2>1, <2>2, <3>1, <4>1
    <3>2. CASE i \in (n + 1)..m
      BY <1>2, <2>2, <3>2
    <3> QED BY <2>0, <3>1, <3>2
  <2>4. ASSUME NEW i \in (lead + 1)..m, NEW j \in (lead + 1)..m, i < j, t[j].pusi
        PROVE  t[i].frame < t[j].frame
    <3>1. CASE j \in (lead + 1)..n /\ j \in 1..n
      <4>1. i \in (lead + 1)..n /\ i \in 1..n
        BY <1>1, <1>3, <2>4, <3>1
      <4>2. t[i] = s[i] /\ t[j] = s[j]
        BY <1>2, <3>1, <4>1
      <4> QED BY <2>1, <2>4, <3>1, <4>1, <4>2
    <3>2. CASE j \in (n + 1)..m
      <4>1. j = n + 1 /\ t[j].frame = f
        BY <1>2, <2>4, <3>2
      <4>2. i \in (lead + 1)..n /\ i \in 1..n
        BY <1>1, <1>3, <2>4, <4>1
      <4>3. t[i] = s[i]
        BY <1>2, <4>2
      <4> QED BY <2>1, <2>2, <4>1, <4>2, <4>3
    <3> QED BY <2>0, <3>1, <3>2
  <2>5. ASSUME NEW g \in first..f
        PROVE  \E i \in (lead + 1)..m : t[i].pusi /\ t[i].frame = g
    <3>1. CASE g = f
      <4>1. n + 1 \in (n + 1)..m /\ n + 1 \in (lead + 1)..m
        BY <1>1, <1>3, <1>5
      <4> QED BY <1>2, <3>1, <4>1
    <3>2. CASE g \in first..(first + count - 1)
      <4>1. PICK i \in (lead + 1)..n : s[i].pusi /\ s[i].frame = g
        BY <2>1, <3>2
      <4>2. i \in (lead + 1)..m /\ i \in 1..n
        BY <1>1, <1>3, <1>5
      <4> QED BY <1>2, <4>1, <4>2
    <3> QED BY <2>2, <3>1, <3>2
  <2> QED BY <2>2, <2>3, <2>4, <2>5 DEF Framed, m
<1>11. LaidOut(t, lead, first, count + 1)
  <2>1. 1 \in 1..n /\ 2 \in 1..n
    BY <1>1, <1>5
  <2>2. t[1] = s[1] /\ t[2] = s[2]
    BY <1>2, <2>1
  <2>3. lead \in 2..m /\ lead < m /\ count + 1 > 0
    BY <1>1, <1>3, <1>5
  <2>4. Len(t) = m
    BY DEF m
  <2> QED BY <1>1, <1>3, <1>9, <1>10, <2>2, <2>3, <2>4 DEF LaidOut
<1>12. count = 0 => t[lead + 1].cc = w.cc["AUDIO"]
  <2>1. n + 1 \in (n + 1)..m
    BY <1>1, <1>5
  <2>2. t[n + 1].cc = w.cc["AUDIO"]
    BY <1>2, <2>1
  <2> QED BY <1>6, <2>2
<1> QED BY <1>2, <1>5, <1>11, <1>12 DEF Extended, s, t, n, m

(* A table is a packet of its own.                                         *)
IsTable(p, pid, c, tag, f) ==
    /\ p \in TsPacket /\ Fits(p) /\ p.pid = pid /\ p.cc = c /\ p.frame = f
    /\ p.offset = 0 /\ p.payload = p.of
    /\ p.pusi = TRUE /\ p.pcr = FALSE
    /\ p.tag <=> tag

LEMMA TableIs ==
    ASSUME NEW w \in Writing, NEW pid \in Pid, NEW tag \in BOOLEAN, NEW f \in Nat
    PROVE  \E p : WriteTable(w, pid, tag, f) = Put(w, p) /\ IsTable(p, pid, w.cc[pid], tag, f)
<1> DEFINE stuffing == PacketSize - 4 - TableLength
           afl == stuffing - 1
           start == 4 + stuffing
           c == w.cc[pid]
           p == [pid |-> pid, cc |-> c, pusi |-> TRUE, pcr |-> FALSE, frame |-> f,
                 afl |-> afl, start |-> start, payload |-> TableLength, offset |-> 0,
                 of |-> TableLength, tag |-> tag]
<1>1. WriteTable(w, pid, tag, f) = Put(w, p)
  BY DEF WriteTable
<1>2. c \in Counters
  BY DEF Writing
<1>3. /\ afl \in -1..PacketSize /\ start \in 0..PacketSize /\ TableLength \in 0..PacketSize
      /\ start + TableLength = PacketSize /\ TableLength > 0 /\ TableLength \in Nat
      /\ start = IF afl = -1 THEN 4 ELSE 5 + afl
  BY MuxerConstants
<1> HIDE DEF afl, start, c
<1>4. p \in TsPacket
  BY <1>2, <1>3 DEF TsPacket, Counters
<1>5. Fits(p)
  BY <1>3 DEF Fits
<1>6. /\ p.pid = pid /\ p.cc = c /\ p.frame = f /\ p.offset = 0 /\ p.payload = TableLength
      /\ p.of = TableLength /\ p.pusi = TRUE /\ p.pcr = FALSE /\ (p.tag <=> tag)
  OBVIOUS
<1> HIDE DEF p
<1>7. IsTable(p, pid, c, tag, f)
  BY <1>4, <1>5, <1>6 DEF IsTable
<1> QED BY <1>1, <1>7 DEF c

(* What a segment begins with, and the counters it leaves.                 *)
IsHead(w, v, f) ==
    /\ v \in Writing /\ LaidOut(v.packets, Len(v.packets), f, 0)
    /\ v.packets[1].cc = w.cc["PAT"] /\ v.cc["PAT"] = After(w.cc["PAT"])
    /\ v.packets[2].cc = w.cc["PMT"] /\ v.cc["PMT"] = After(w.cc["PMT"])
    /\ v.cc["AUDIO"] = w.cc["AUDIO"] /\ v.cc["META"] = 0

LEMMA HeadIs ==
    ASSUME NEW w \in Writing, w.cc["META"] = 0, NEW tagLen \in Nat, NEW f \in Nat
    PROVE  IsHead(w, WriteHead(w, tagLen, f), f)
<1> DEFINE w0 == [w EXCEPT !.packets = << >>]
           w1 == WriteTable(w0, "PAT", FALSE, f)
           w2 == WriteTable(w1, "PMT", tagLen > 0, f)
           w3 == WritePes(w2, "META", tagLen, FALSE, f)
           w4 == [w3 EXCEPT !.cc["META"] = w.cc["META"]]
<1>0. /\ "PAT" \in Pid /\ "PMT" \in Pid /\ "META" \in Pid /\ "AUDIO" \in Pid
      /\ "PAT" # "PMT" /\ "PAT" # "META" /\ "PAT" # "AUDIO"
      /\ "PMT" # "META" /\ "PMT" # "AUDIO" /\ "META" # "AUDIO"
  BY DEF Pid
<1>1. WriteHead(w, tagLen, f) = IF tagLen = 0 THEN w2 ELSE w4
  BY DEF WriteHead
<1>2. w0 \in Writing /\ w0.packets = << >> /\ w0.cc = w.cc /\ Len(w0.packets) = 0
  <2>1. w \in [packets : Seq(TsPacket), cc : [Pid -> Counters]] /\ << >> \in Seq(TsPacket)
    BY DEF Writing
  <2>2. w0 \in [packets : Seq(TsPacket), cc : [Pid -> Counters]]
    BY <2>1
  <2>3. w0.packets = << >> /\ w0.cc = w.cc /\ Len(<< >>) = 0
    BY <2>1
  <2> QED BY <2>2, <2>3 DEF Writing
<1> HIDE DEF w0
<1>3. PICK p1 : w1 = Put(w0, p1) /\ IsTable(p1, "PAT", w0.cc["PAT"], FALSE, f)
  BY <1>0, <1>2, TableIs
<1> HIDE DEF w1
<1>4. /\ w1 \in Writing /\ Len(w1.packets) = 1 /\ w1.packets[1] = p1
      /\ w1.cc["PAT"] = After(w.cc["PAT"]) /\ w1.cc["PMT"] = w.cc["PMT"]
      /\ w1.cc["META"] = w.cc["META"] /\ w1.cc["AUDIO"] = w.cc["AUDIO"]
  <2>1. p1 \in TsPacket /\ p1.pid = "PAT"
    BY <1>3 DEF IsTable
  <2>2. /\ w1 \in Writing /\ Len(w1.packets) = Len(w0.packets) + 1
        /\ w1.packets[Len(w0.packets) + 1] = p1
        /\ w1.cc[p1.pid] = After(w0.cc[p1.pid])
        /\ \A q \in Pid : q # p1.pid => w1.cc[q] = w0.cc[q]
    BY <1>2, <1>3, <2>1, PutIs
  <2>3. Len(w0.packets) + 1 = 1
    BY <1>2
  <2> QED BY <1>0, <1>2, <2>1, <2>2, <2>3
<1>5. PICK p2 : w2 = Put(w1, p2) /\ IsTable(p2, "PMT", w1.cc["PMT"], tagLen > 0, f)
  <2> DEFINE tag == tagLen > 0
  <2>1. tag \in BOOLEAN
    OBVIOUS
  <2> HIDE DEF tag
  <2>2. \E p : /\ WriteTable(w1, "PMT", tag, f) = Put(w1, p)
               /\ IsTable(p, "PMT", w1.cc["PMT"], tag, f)
    BY <1>0, <1>4, <2>1, TableIs
  <2> QED BY <2>2 DEF tag
<1> HIDE DEF w2
<1>6. /\ w2 \in Writing /\ Len(w2.packets) = 2
      /\ w2.packets[1] = p1 /\ w2.packets[2] = p2
      /\ w2.cc["PAT"] = After(w.cc["PAT"]) /\ w2.cc["PMT"] = After(w.cc["PMT"])
      /\ w2.cc["META"] = 0 /\ w2.cc["AUDIO"] = w.cc["AUDIO"]
  <2>1. p2 \in TsPacket /\ p2.pid = "PMT"
    BY <1>5 DEF IsTable
  <2>2. /\ w2 \in Writing /\ Len(w2.packets) = Len(w1.packets) + 1
        /\ \A i \in 1..Len(w1.packets) : w2.packets[i] = w1.packets[i]
        /\ w2.packets[Len(w1.packets) + 1] = p2
        /\ w2.cc[p2.pid] = After(w1.cc[p2.pid])
        /\ \A q \in Pid : q # p2.pid => w2.cc[q] = w1.cc[q]
    BY <1>4, <1>5, <2>1, PutIs
  <2>3. 1 \in 1..Len(w1.packets) /\ Len(w1.packets) + 1 = 2
    BY <1>4
  <2> QED BY <1>0, <1>4, <2>1, <2>2, <2>3
<1>7. /\ Fits(p1) /\ p1.pid = "PAT" /\ p1.cc = w.cc["PAT"] /\ p1.offset = 0
      /\ p1.payload = p1.of /\ p1.pusi = TRUE /\ p1.pcr = FALSE
      /\ p1 \in TsPacket
  BY <1>2, <1>3 DEF IsTable
<1>8. /\ Fits(p2) /\ p2.pid = "PMT" /\ p2.cc = w.cc["PMT"] /\ p2.offset = 0
      /\ p2.payload = p2.of /\ p2.pusi = TRUE /\ p2.pcr = FALSE
      /\ (p2.tag <=> tagLen > 0) /\ p2 \in TsPacket
  BY <1>4, <1>5 DEF IsTable
<1>9. p1.payload \in Nat /\ p2.payload \in Nat
  <2>1. p1.payload \in 0..PacketSize /\ p2.payload \in 0..PacketSize /\ PacketSize \in Nat
    BY <1>7, <1>8, MuxerConstants DEF TsPacket
  <2> QED BY <2>1
<1>10. ASSUME NEW t \in Seq(TsPacket), NEW h \in Nat, h = Len(t), h >= 2,
              t[1] = p1, t[2] = p2
       PROVE  Placed(t, 1, h, f) /\ Placed(t, 2, h, f)
  <2>1. /\ ~(1 \in 3..(h + 1)) /\ ~(2 \in 3..(h + 1)) /\ ~(1 \in 3..h) /\ ~(2 \in 3..h)
        /\ ~(1 > h + 1) /\ ~(2 > h + 1) /\ ~(1 = h + 1) /\ ~(2 = h + 1)
    BY <1>10
  <2>2. /\ t[1].offset + t[1].payload = t[1].of /\ t[2].offset + t[2].payload = t[2].of
        /\ ~(t[1].offset > 0) /\ ~(t[2].offset > 0) /\ t[1].offset = 0 /\ t[2].offset = 0
        /\ t[1].pusi = TRUE /\ t[2].pusi = TRUE /\ t[1].pcr = FALSE /\ t[2].pcr = FALSE
        /\ Fits(t[1]) /\ Fits(t[2])
    BY <1>7, <1>8, <1>9, <1>10
  <2> QED BY <2>1, <2>2 DEF Placed
<1>11. ASSUME NEW t \in Seq(TsPacket), NEW h \in Nat, h = Len(t)
       PROVE  Framed(t, h, f, 0)
  <2>1. (h + 1)..Len(t) = {} /\ f..(f + 0 - 1) = {}
    BY <1>11
  <2> QED BY <2>1 DEF Framed
<1>12. CASE tagLen = 0
  <2> DEFINE t == w2.packets
  <2>1. t \in Seq(TsPacket) /\ Len(t) = 2 /\ t[1] = p1 /\ t[2] = p2
    BY <1>6 DEF Writing
  <2> HIDE DEF t
  <2>a. 2 \in Nat /\ 2 = Len(t) /\ 2 >= 2
    BY <2>1
  <2>2. Placed(t, 1, 2, f) /\ Placed(t, 2, 2, f) /\ Framed(t, 2, f, 0)
    BY <1>10, <1>11, <2>1, <2>a
  <2>3. \A i \in 1..2 : i = 1 \/ i = 2
    OBVIOUS
  <2>4. LaidOut(t, 2, f, 0)
    BY <1>7, <1>8, <1>12, <2>1, <2>2, <2>3 DEF LaidOut
  <2>5. IsHead(w, w2, f)
    BY <1>6, <1>7, <1>8, <2>1, <2>4 DEF IsHead, t
  <2> QED BY <1>1, <1>12, <2>5
<1>13. CASE tagLen # 0
  <2>1. w3 \in Writing /\ PesSoFar(w2, w3, tagLen, "META", tagLen, FALSE, f)
    BY <1>0, <1>6, WritePesIs
  <2> HIDE DEF w3
  <2> DEFINE t == w3.packets
             m == Len(t)
  <2>2. /\ t \in Seq(TsPacket) /\ m \in Nat
        /\ \A i \in 1..m : t[i].offset \in Nat /\ t[i].payload \in Nat
    <3>1. w3.packets \in Seq(TsPacket)
      BY <2>1 DEF Writing
    <3> QED BY <3>1, PacketTypes
  <2>3. /\ 2 <= m /\ \A i \in 1..2 : t[i] = w2.packets[i]
        /\ \A i \in 3..m :
              /\ t[i].pid = "META" /\ t[i].frame = f /\ t[i].of = tagLen /\ Fits(t[i])
              /\ t[i].pcr = FALSE \/ ~t[i].pcr
              /\ t[i].pusi <=> i = 3
              /\ t[i].offset = 0 <=> i = 3
              /\ t[i].cc = IF i = 3 THEN w2.cc["META"] ELSE After(t[i - 1].cc)
              /\ i > 3 => t[i - 1].offset + t[i - 1].payload = t[i].offset
        /\ m # 2 => tagLen = t[m].offset + t[m].payload
        /\ \A i \in 3..(m - 1) : t[i].offset + t[i].payload < tagLen
        /\ tagLen = 0 <=> m = 2
        /\ w3.cc["PAT"] = w2.cc["PAT"] /\ w3.cc["PMT"] = w2.cc["PMT"]
        /\ w3.cc["AUDIO"] = w2.cc["AUDIO"]
    <3>1. 2 + 1 = 3
      OBVIOUS
    <3> QED BY <1>0, <1>6, <2>1, <3>1 DEF PesSoFar
  <2>4. /\ w4.packets = t /\ w4 \in Writing /\ w4.cc["META"] = 0
        /\ w4.cc["PAT"] = w3.cc["PAT"] /\ w4.cc["PMT"] = w3.cc["PMT"]
        /\ w4.cc["AUDIO"] = w3.cc["AUDIO"]
    <3>1. w3 \in [packets : Seq(TsPacket), cc : [Pid -> Counters]] /\ 0 \in Counters
      BY <2>1, MuxerConstants DEF Writing
    <3>2. w4 = [w3 EXCEPT !.cc = [w3.cc EXCEPT !["META"] = 0]]
      BY <3>1
    <3>3. [w3.cc EXCEPT !["META"] = 0] \in [Pid -> Counters]
      BY <1>0, <3>1
    <3>4. w4.cc = [w3.cc EXCEPT !["META"] = 0] /\ w4.packets = t
      BY <3>1, <3>2
    <3>5. w4 \in Writing
      BY <3>1, <3>2, <3>3 DEF Writing
    <3> QED BY <1>0, <3>1, <3>4, <3>5
  <2> HIDE DEF t, m, w4
  <2>5. t[1] = p1 /\ t[2] = p2 /\ m > 2
    <3>1. 1 \in 1..2 /\ 2 \in 1..2
      OBVIOUS
    <3> QED BY <1>6, <1>13, <2>2, <2>3, <3>1
  <2>6. Placed(t, 1, m, f) /\ Placed(t, 2, m, f) /\ Framed(t, m, f, 0)
    BY <1>10, <1>11, <2>2, <2>5 DEF m
  <2>7. ASSUME NEW i \in 3..m PROVE Placed(t, i, m, f)
    <3>1. i \in Nat /\ i \in 1..m /\ i > 2 /\ i <= m /\ ~(i = m + 1) /\ ~(i > m + 1)
      BY <2>2
    <3>2. t[i].offset > 0 => i > 3
      <4>1. (t[i].offset = 0 <=> i = 3) /\ t[i].offset \in Nat
        BY <2>2, <2>3, <3>1
      <4> DEFINE o == t[i].offset
      <4>2. (o = 0 <=> i = 3) /\ o \in Nat
        BY <4>1
      <4> HIDE DEF o
      <4>3. o > 0 => i > 3
        BY <3>1, <4>2
      <4> QED BY <4>3 DEF o
    <3>3. \/ t[i].offset + t[i].payload = t[i].of
          \/ i < m /\ t[i + 1].offset > 0
      <4>1. CASE i = m
        BY <2>3, <2>5, <4>1
      <4>2. CASE i # m
        <5>1. i + 1 \in 3..m /\ i + 1 # 3 /\ i + 1 \in 1..m /\ i < m
          BY <2>2, <3>1, <4>2
        <5>2. ~(t[i + 1].offset = 0) /\ t[i + 1].offset \in Nat
          BY <2>2, <2>3, <5>1
        <5> QED BY <5>1, <5>2
      <4> QED BY <4>1, <4>2
    <3>4. t[i].cc = IF t[i].pusi THEN 0 ELSE After(t[i - 1].cc)
      BY <1>6, <2>3
    <3> QED BY <2>3, <3>1, <3>2, <3>3, <3>4 DEF Placed, m
  <2>8. \A i \in 1..m : i = 1 \/ i = 2 \/ i \in 3..m
    BY <2>2
  <2>9. \A i \in 1..m : Placed(t, i, m, f)
    BY <2>6, <2>7, <2>8
  <2>10. LaidOut(t, m, f, 0)
    <3>1. m \in 2..m /\ ~(0 > 0) /\ ~(m < m) /\ tagLen > 0 /\ Len(t) = m
      BY <1>13, <2>2, <2>5 DEF m
    <3> QED BY <1>7, <1>8, <2>2, <2>5, <2>6, <2>9, <3>1 DEF LaidOut
  <2>11. IsHead(w, w4, f)
    BY <1>6, <1>7, <1>8, <2>3, <2>4, <2>5, <2>10 DEF IsHead, m
  <2> QED BY <1>1, <1>13, <2>11
<1> QED BY <1>12, <1>13
-----------------------------------------------------------------------------
(* A stream of segments.                                                   *)

(* The counters after a segment are those its last packets have brought.   *)
Leads(seg, cc) ==
    /\ cc["PAT"] = After(seg[1].cc) /\ cc["PMT"] = After(seg[2].cc)
    /\ cc["AUDIO"] = After(seg[Len(seg)].cc)

(* A segment goes on where the one before it stopped; its first audio is   *)
(* the packet with the PCR.                                                *)
Joins(s, t) ==
    /\ t[1].cc = After(s[1].cc) /\ t[2].cc = After(s[2].cc)
    /\ \A i \in 1..Len(t) : t[i].pcr => t[i].cc = After(s[Len(s)].cc)

Done == [first : Nat, frames : Nat, packets : Seq(TsPacket)]

Chain(past, cur, cc) ==
    /\ \A n \in 1..(Len(past) - 1) : Joins(past[n].packets, past[n + 1].packets)
    /\ cur # << >> /\ Len(past) > 0 => Joins(past[Len(past)].packets, cur)
    /\ cur # << >> => Leads(cur, cc)
    /\ cur = << >> /\ Len(past) > 0 => Leads(past[Len(past)].packets, cc)

Laid(seg, first, count) == count > 0 /\ \E lead \in Nat : LaidOut(seg, lead, first, count)

MuxerInv ==
    /\ mux \in MuxState /\ written \in Writing /\ muxed \in 0..MaxFrames
    /\ ended \in BOOLEAN /\ completed \in Seq(Done)
    /\ written.cc["META"] = 0
    /\ \A n \in 1..Len(completed) :
          Laid(completed[n].packets, completed[n].first, completed[n].frames)
    /\ ended => written.packets = << >>
    /\ ~ended /\ mux.started => /\ mux.first + mux.count = muxed
                                /\ Laid(written.packets, mux.first, mux.count)
    /\ ~ended /\ ~mux.started => /\ mux.count = 0
                                 /\ written.packets = << >> /\ completed = << >>
    /\ Chain(completed, written.packets, written.cc)

(* What the first audio PES of a segment makes of it, and a later one.     *)
IsOpened(w, v, f) ==
    /\ v \in Writing /\ Laid(v.packets, f, 1) /\ Leads(v.packets, v.cc)
    /\ v.cc["META"] = 0
    /\ \A s : Leads(s, w.cc) => Joins(s, v.packets)

IsContinued(w, v, first, count) ==
    /\ v \in Writing /\ Laid(v.packets, first, count + 1) /\ Leads(v.packets, v.cc)
    /\ v.cc["META"] = 0
    /\ \A s : Joins(s, w.packets) => Joins(s, v.packets)

(* A segment with its first audio PES.                                     *)
LEMMA Opened ==
    ASSUME NEW w \in Writing, w.cc["META"] = 0, NEW tagLen \in Nat, NEW f \in Nat,
           NEW len \in Nat \ {0},
           NEW v, v = WritePes(WriteHead(w, tagLen, f), "AUDIO", len, TRUE, f)
    PROVE  IsOpened(w, v, f)
<1> DEFINE u == WriteHead(w, tagLen, f)
           lead == Len(u.packets)
<1>1. IsHead(w, u, f)
  BY HeadIs
<1>2. v = WritePes(u, "AUDIO", len, TRUE, f)
  OBVIOUS
<1> HIDE DEF u
<1>3. u \in Writing /\ LaidOut(u.packets, lead, f, 0)
  BY <1>1 DEF IsHead
<1>4. "AUDIO" \in Pid /\ len \in Nat
  BY DEF Pid
<1>5. v \in Writing /\ PesSoFar(u, v, len, "AUDIO", len, TRUE, f)
  BY <1>2, <1>3, <1>4, WritePesIs
<1>6. f + 0 = f /\ ~(0 > 0) /\ 0 \in Nat /\ 0 + 1 = 1
  OBVIOUS
<1>7. /\ LaidOut(v.packets, lead, f, 1)
      /\ v.cc["AUDIO"] = After(v.packets[Len(v.packets)].cc)
      /\ Len(u.packets) < Len(v.packets)
      /\ \A i \in 1..Len(u.packets) : v.packets[i] = u.packets[i]
      /\ v.packets[lead + 1].cc = u.cc["AUDIO"]
  <2> HIDE DEF lead
  <2>1. f = f + 0 /\ TRUE \in BOOLEAN /\ (TRUE <=> 0 = 0)
    OBVIOUS
  <2>2. Extended(u, v, lead, f, 0)
    BY <1>3, <1>5, <1>6, <2>1, AudioAppended
  <2> QED BY <1>6, <2>2 DEF Extended
<1>8. lead \in Nat /\ lead >= 2 /\ 1 \in 1..lead /\ 2 \in 1..lead
  BY <1>3 DEF LaidOut
<1>9. v.packets[1] = u.packets[1] /\ v.packets[2] = u.packets[2]
  BY <1>7, <1>8
<1>10. /\ v.cc["PAT"] = u.cc["PAT"] /\ v.cc["PMT"] = u.cc["PMT"] /\ v.cc["META"] = u.cc["META"]
  BY <1>5 DEF PesSoFar, Pid
<1>11. Laid(v.packets, f, 1)
  <2> HIDE DEF lead
  <2>1. LaidOut(v.packets, lead, f, 1)
    BY <1>7
  <2>2. lead \in Nat
    BY <1>8
  <2>3. 1 > 0
    OBVIOUS
  <2> QED BY <2>1, <2>2, <2>3 DEF Laid
<1>12. Leads(v.packets, v.cc)
  BY <1>1, <1>7, <1>9, <1>10 DEF IsHead, Leads
<1>13. ASSUME NEW s, Leads(s, w.cc) PROVE Joins(s, v.packets)
  <2>1. ASSUME NEW i \in 1..Len(v.packets), v.packets[i].pcr
        PROVE  v.packets[i].cc = After(s[Len(s)].cc)
    <3>1. Placed(v.packets, i, lead, f)
      BY <1>7 DEF LaidOut
    <3>2. i = lead + 1
      BY <2>1, <3>1 DEF Placed
    <3>3. v.packets[i].cc = w.cc["AUDIO"]
      BY <1>1, <1>7, <3>2 DEF IsHead
    <3> QED BY <1>13, <3>3 DEF Leads
  <2>2. v.packets[1].cc = After(s[1].cc) /\ v.packets[2].cc = After(s[2].cc)
    BY <1>1, <1>9, <1>13 DEF IsHead, Leads
  <2> QED BY <2>1, <2>2 DEF Joins
<1>14. v.cc["META"] = 0
  BY <1>1, <1>10 DEF IsHead
<1> QED BY <1>5, <1>11, <1>12, <1>13, <1>14 DEF IsOpened

(* A segment with one audio PES more.                                      *)
LEMMA Continued ==
    ASSUME NEW w \in Writing, w.cc["META"] = 0, NEW first \in Nat, NEW count \in Nat,
           NEW len \in Nat \ {0}, Laid(w.packets, first, count), Leads(w.packets, w.cc),
           NEW f, f = first + count, NEW v, v = WritePes(w, "AUDIO", len, FALSE, f)
    PROVE  IsContinued(w, v, first, count)
<1>1. count > 0 /\ f \in Nat /\ "AUDIO" \in Pid /\ len \in Nat
  BY DEF Laid, Pid
<1>2. PICK lead \in Nat : LaidOut(w.packets, lead, first, count)
  BY DEF Laid
<1>3. v \in Writing /\ PesSoFar(w, v, len, "AUDIO", len, FALSE, f)
  BY <1>1, WritePesIs
<1>4. /\ LaidOut(v.packets, lead, first, count + 1)
      /\ v.cc["AUDIO"] = After(v.packets[Len(v.packets)].cc)
      /\ Len(w.packets) < Len(v.packets)
      /\ \A i \in 1..Len(w.packets) : v.packets[i] = w.packets[i]
  <2>1. (FALSE <=> count = 0) /\ w.cc["AUDIO"] = After(w.packets[Len(w.packets)].cc)
    BY <1>1 DEF Leads
  <2>3. Extended(w, v, lead, first, count)
    BY <1>2, <1>3, <2>1, AudioAppended
  <2> QED BY <2>3 DEF Extended
<1>5. /\ lead >= 2 /\ lead < Len(w.packets) /\ Len(w.packets) \in Nat
  <2>1. w.packets \in Seq(TsPacket)
    BY DEF Writing
  <2>2. Len(w.packets) \in Nat
    BY <2>1, LenProperties
  <2>3. lead \in 2..Len(w.packets) /\ (count > 0 <=> lead < Len(w.packets))
    BY <1>2 DEF LaidOut
  <2> QED BY <1>1, <2>2, <2>3
<1>6. v.packets[1] = w.packets[1] /\ v.packets[2] = w.packets[2]
  <2>1. 1 \in 1..Len(w.packets) /\ 2 \in 1..Len(w.packets)
    BY <1>5
  <2> QED BY <1>4, <2>1
<1>7. /\ v.cc["PAT"] = w.cc["PAT"] /\ v.cc["PMT"] = w.cc["PMT"] /\ v.cc["META"] = w.cc["META"]
  BY <1>3 DEF PesSoFar, Pid
<1>8. Laid(v.packets, first, count + 1)
  <2>1. count + 1 > 0
    OBVIOUS
  <2> QED BY <1>4, <2>1 DEF Laid
<1>9. Leads(v.packets, v.cc)
  BY <1>4, <1>6, <1>7 DEF Leads
<1>10. ASSUME NEW s, Joins(s, w.packets) PROVE Joins(s, v.packets)
  <2>1. ASSUME NEW i \in 1..Len(v.packets), v.packets[i].pcr
        PROVE  v.packets[i].cc = After(s[Len(s)].cc)
    <3>1. Placed(v.packets, i, lead, first)
      BY <1>4 DEF LaidOut
    <3>2. i = lead + 1
      BY <2>1, <3>1 DEF Placed
    <3>3. i \in 1..Len(w.packets)
      BY <1>5, <3>2
    <3>4. v.packets[i] = w.packets[i]
      BY <1>4, <3>3
    <3> QED BY <1>10, <2>1, <3>3, <3>4 DEF Joins
  <2> QED BY <1>6, <1>10, <2>1 DEF Joins
<1> QED BY <1>3, <1>7, <1>8, <1>9, <1>10 DEF IsContinued

(* Where a muxer cuts, and what it is then.                                *)
LEMMA Pushed ==
    ASSUME NEW m \in MuxState, NEW f \in Nat
    PROVE  /\ PushFrame(m, f) \in MuxState /\ PushFrame(m, f).started
           /\ ~m.started => ~Cuts(m, f)
           /\ ~m.started \/ Cuts(m, f) => PushFrame(m, f).first = f /\ PushFrame(m, f).count = 1
           /\ m.started /\ ~Cuts(m, f) => /\ PushFrame(m, f).first = m.first
                                          /\ PushFrame(m, f).count = m.count + 1
<1>1. m.started \in BOOLEAN /\ m.first \in Nat /\ m.count \in Nat
  BY DEF MuxState
<1>2. /\ BeginSegment(f) \in MuxState /\ BeginSegment(f).started = TRUE
      /\ BeginSegment(f).first = f /\ BeginSegment(f).count = 0
  BY DEF BeginSegment, MuxState
<1>3. ASSUME NEW n \in MuxState
      PROVE  /\ WriteAudioFrame(n) \in MuxState
             /\ n.started => WriteAudioFrame(n).started
             /\ WriteAudioFrame(n).first = n.first /\ WriteAudioFrame(n).count = n.count + 1
  BY DEF WriteAudioFrame, MuxState
<1>4. ~m.started => ~Cuts(m, f)
  BY <1>2 DEF Cuts, Begun
<1>5. ASSUME ~m.started \/ Cuts(m, f)
      PROVE  PushFrame(m, f) = WriteAudioFrame(BeginSegment(f))
  BY <1>4, <1>5 DEF PushFrame, Begun
<1>6. ASSUME m.started, ~Cuts(m, f) PROVE PushFrame(m, f) = WriteAudioFrame(m)
  BY <1>6 DEF PushFrame, Begun
<1> QED BY <1>2, <1>3, <1>4, <1>5, <1>6

(* One segment more.                                                       *)
LEMMA ChainGrows ==
    ASSUME NEW past \in Seq(Done), NEW d \in Done, NEW cc, NEW c1, NEW new,
           d.packets # << >>, Chain(past, d.packets, cc),
           \/ new = << >> /\ c1 = cc
           \/ new # << >> /\ Joins(d.packets, new) /\ Leads(new, c1)
    PROVE  Chain(Append(past, d), new, c1)
<1> DEFINE big == Append(past, d)
           n == Len(past)
<1>1. /\ n \in Nat /\ Len(big) = n + 1 /\ big[n + 1] = d
      /\ \A i \in 1..n : big[i] = past[i]
  BY AppendProperties, LenProperties
<1>2. /\ \A i \in 1..(n - 1) : Joins(past[i].packets, past[i + 1].packets)
      /\ n > 0 => Joins(past[n].packets, d.packets)
      /\ Leads(d.packets, cc)
  BY DEF Chain
<1> HIDE DEF big, n
<1>3. ASSUME NEW i \in 1..n PROVE Joins(big[i].packets, big[i + 1].packets)
  <2>1. CASE i = n
    <3>1. n > 0 /\ n \in 1..n
      BY <1>1, <2>1
    <3> QED BY <1>1, <1>2, <2>1, <3>1
  <2>2. CASE i # n
    <3>1. i \in 1..(n - 1) /\ i + 1 \in 1..n
      BY <1>1, <2>2
    <3> QED BY <1>1, <1>2, <3>1
  <2> QED BY <2>1, <2>2
<1>4. (n + 1) - 1 = n
  BY <1>1
<1>5. Chain(big, new, c1)
  BY <1>1, <1>2, <1>3, <1>4 DEF Chain
<1> QED BY <1>5 DEF big

LEMMA NotEmpty ==
    ASSUME NEW seg \in Seq(TsPacket), NEW first, NEW count, Laid(seg, first, count)
    PROVE  seg # << >> /\ Len(seg) >= 2
<1>1. PICK lead \in Nat : LaidOut(seg, lead, first, count)
  BY DEF Laid
<1>2. lead \in 2..Len(seg) /\ Len(seg) \in Nat
  BY <1>1, LenProperties DEF LaidOut
<1>3. Len(seg) >= 2
  BY <1>2
<1>4. Len(<< >>) = 0
  OBVIOUS
<1> QED BY <1>3, <1>4

-----------------------------------------------------------------------------

LEMMA MuxerInitInv == Init => MuxerInv
<1> SUFFICES ASSUME Init PROVE MuxerInv
  OBVIOUS
<1>1. /\ mux = NewMuxer /\ muxed = 0 /\ completed = << >> /\ ended = FALSE
      /\ written = [packets |-> << >>, cc |-> [p \in Pid |-> 0]]
  BY DEF Init
<1>2. mux \in MuxState /\ mux.started = FALSE /\ mux.count = 0
  BY <1>1 DEF NewMuxer, MuxState
<1>3. [p \in Pid |-> 0] \in [Pid -> Counters] /\ << >> \in Seq(TsPacket)
  BY MuxerConstants
<1>4. /\ written \in Writing /\ written.packets = << >>
      /\ written.cc["META"] = 0
  BY <1>1, <1>3 DEF Writing, Pid
<1>5. completed \in Seq(Done) /\ Len(completed) = 0 /\ 1..Len(completed) = {}
  BY <1>1
<1>6. Chain(completed, written.packets, written.cc)
  <2>1. 1..(Len(completed) - 1) = {} /\ ~(Len(completed) > 0)
    BY <1>5
  <2> QED BY <1>4, <2>1 DEF Chain
<1>7. muxed \in 0..MaxFrames
  BY <1>1, TsMuxerAssumption
<1> QED BY <1>1, <1>2, <1>4, <1>5, <1>6, <1>7 DEF MuxerInv

(* A frame pushed.                                                         *)
LEMMA MuxFrameKeeps ==
    ASSUME MuxerInv, NEW len \in AudioLengths, NEW tagLen \in TagLengths,
           MuxFrame(len, tagLen)
    PROVE  MuxerInv'
<1> DEFINE cuts == Cuts(mux, muxed)
           opens == cuts \/ ~mux.started
           w == IF opens THEN WriteHead(written, tagLen, muxed) ELSE written
           new == PushFrame(mux, muxed)
<1>1. /\ len \in Nat \ {0} /\ tagLen \in Nat /\ MaxFrames \in Nat
  BY TsMuxerAssumption
<1>2. /\ ~ended /\ muxed < MaxFrames
      /\ written' = WritePes(w, "AUDIO", len, opens, muxed)
      /\ mux' = PushFrame(mux, muxed)
      /\ completed' = IF cuts THEN Append(completed, Finished) ELSE completed
      /\ muxed' = muxed + 1 /\ ended' = ended
  BY DEF MuxFrame
<1>3. /\ mux \in MuxState /\ written \in Writing /\ muxed \in 0..MaxFrames
      /\ ended \in BOOLEAN /\ completed \in Seq(Done) /\ written.cc["META"] = 0
      /\ \A n \in 1..Len(completed) :
          Laid(completed[n].packets, completed[n].first, completed[n].frames)
      /\ mux.started => /\ mux.first + mux.count = muxed
                        /\ Laid(written.packets, mux.first, mux.count)
      /\ ~mux.started => /\ mux.count = 0
                         /\ written.packets = << >> /\ completed = << >>
      /\ Chain(completed, written.packets, written.cc)
  BY <1>2 DEF MuxerInv
<1>4. /\ muxed \in Nat /\ muxed' \in 0..MaxFrames /\ mux.started \in BOOLEAN
      /\ mux.first \in Nat /\ mux.count \in Nat
  BY <1>1, <1>2, <1>3 DEF MuxState
<1>5. /\ mux' \in MuxState /\ mux'.started
      /\ ~mux.started => ~cuts
      /\ ~mux.started \/ cuts => mux'.first = muxed /\ mux'.count = 1
      /\ mux.started /\ ~cuts => mux'.first = mux.first /\ mux'.count = mux.count + 1
  BY <1>2, <1>3, <1>4, Pushed
<1> DEFINE v == WritePes(w, "AUDIO", len, opens, muxed)
<1>6. written' = v /\ mux'.first \in Nat /\ mux'.count \in Nat
  BY <1>2, <1>5 DEF MuxState
<1>7. CASE opens
  <2>1. v = WritePes(WriteHead(written, tagLen, muxed), "AUDIO", len, TRUE, muxed)
    BY <1>7
  <2> HIDE DEF v
  <2>2. /\ v \in Writing /\ Laid(v.packets, muxed, 1) /\ Leads(v.packets, v.cc)
        /\ v.cc["META"] = 0
        /\ \A s : Leads(s, written.cc) => Joins(s, v.packets)
    <3>1. IsOpened(written, v, muxed)
      BY <1>1, <1>3, <1>4, <2>1, Opened
    <3> QED BY <3>1 DEF IsOpened
  <2>3. v.packets # << >>
    <3>1. v.packets \in Seq(TsPacket)
      BY <2>2 DEF Writing
    <3> QED BY <2>2, <3>1, NotEmpty
  <2>4. mux'.first + mux'.count = muxed' /\ mux'.first = muxed /\ mux'.count = 1
    BY <1>2, <1>4, <1>5, <1>7
  <2>5. CASE ~mux.started
    <3>1. completed' = completed /\ completed = << >> /\ Len(completed) = 0
      BY <1>2, <1>3, <1>5, <2>5
    <3>2. Chain(completed', v.packets, v.cc)
      <4>1. 1..(Len(completed') - 1) = {} /\ ~(Len(completed') > 0)
        BY <3>1
      <4> QED BY <2>2, <2>3, <4>1 DEF Chain
    <3> QED BY <1>2, <1>3, <1>4, <1>5, <1>6, <2>2, <2>4, <3>1, <3>2 DEF MuxerInv
  <2>6. CASE mux.started
    <3>0. cuts
      BY <1>7, <2>6
    <3>1. completed' = Append(completed, Finished)
      BY <1>2, <3>0
    <3>2. /\ Finished \in Done /\ Finished.packets = written.packets
          /\ Finished.first = mux.first /\ Finished.frames = mux.count
      <4>1. written.packets \in Seq(TsPacket)
        BY <1>3 DEF Writing
      <4> QED BY <1>4, <4>1 DEF Finished, Done
    <3> DEFINE d == Finished
    <3> HIDE DEF d
    <3>3. d \in Done /\ d.packets = written.packets /\ Laid(d.packets, d.first, d.frames)
      BY <1>3, <2>6, <3>2 DEF d
    <3>4. d.packets # << >>
      <4>1. d.packets \in Seq(TsPacket)
        BY <3>3 DEF Done
      <4> QED BY <3>3, <4>1, NotEmpty
    <3>5. Leads(written.packets, written.cc)
      BY <1>3, <3>3, <3>4 DEF Chain
    <3>6. Joins(d.packets, v.packets)
      BY <2>2, <3>3, <3>5
    <3>7. completed' = Append(completed, d)
      BY <3>1 DEF d
    <3>8. Chain(completed, d.packets, written.cc)
      BY <1>3, <3>3
    <3>9. Chain(Append(completed, d), v.packets, v.cc)
      BY <1>3, <2>2, <2>3, <3>3, <3>4, <3>6, <3>8, ChainGrows
    <3>10. completed' \in Seq(Done) /\ Len(completed') = Len(completed) + 1
           /\ completed'[Len(completed) + 1] = d
           /\ \A i \in 1..Len(completed) : completed'[i] = completed[i]
      <4>1. completed \in Seq(Done) /\ d \in Done
        BY <1>3, <3>3
      <4>2. Append(completed, d) \in Seq(Done)
        BY <4>1
      <4> QED BY <3>7, <4>1, <4>2, AppendProperties
    <3>11. \A n \in 1..Len(completed') :
               Laid(completed'[n].packets, completed'[n].first, completed'[n].frames)
      <4>1. Len(completed) \in Nat
        BY <1>3, LenProperties
      <4>2. \A n \in 1..Len(completed') : n \in 1..Len(completed) \/ n = Len(completed) + 1
        BY <3>10, <4>1
      <4> QED BY <1>3, <3>3, <3>10, <4>2
    <3> QED BY <1>2, <1>4, <1>5, <1>6, <2>2, <2>4, <3>7, <3>9, <3>10, <3>11 DEF MuxerInv
  <2> QED BY <1>4, <2>5, <2>6
<1>8. CASE ~opens
  <2>1. mux.started /\ ~cuts /\ w = written
    BY <1>8
  <2>2. /\ v = WritePes(written, "AUDIO", len, FALSE, muxed)
        /\ muxed = mux.first + mux.count
    BY <1>3, <1>8, <2>1
  <2> HIDE DEF v
  <2>3. Laid(written.packets, mux.first, mux.count)
    BY <1>3, <2>1
  <2>4. written.packets # << >>
    <3>1. written.packets \in Seq(TsPacket)
      BY <1>3 DEF Writing
    <3> QED BY <2>3, <3>1, NotEmpty
  <2>5. Leads(written.packets, written.cc)
    BY <1>3, <2>4 DEF Chain
  <2>6. /\ v \in Writing /\ Laid(v.packets, mux.first, mux.count + 1)
        /\ Leads(v.packets, v.cc) /\ v.cc["META"] = 0
        /\ \A s : Joins(s, written.packets) => Joins(s, v.packets)
    <3>1. IsContinued(written, v, mux.first, mux.count)
      BY <1>1, <1>3, <1>4, <2>2, <2>3, <2>5, Continued
    <3> QED BY <3>1 DEF IsContinued
  <2>7. v.packets # << >>
    <3>1. v.packets \in Seq(TsPacket)
      BY <2>6 DEF Writing
    <3> QED BY <2>6, <3>1, NotEmpty
  <2>8. completed' = completed
    BY <1>2, <2>1
  <2>9. Chain(completed, v.packets, v.cc)
    BY <1>3, <2>4, <2>6, <2>7 DEF Chain
  <2>10. mux'.first = mux.first /\ mux'.count = mux.count + 1
    BY <1>5, <2>1
  <2>11. mux'.first + mux'.count = muxed' /\ Laid(written'.packets, mux'.first, mux'.count)
    <3>1. mux.first + mux.count = muxed
      BY <1>3, <2>1
    <3> QED BY <1>2, <1>4, <1>6, <2>6, <2>10, <3>1
  <2> QED BY <1>2, <1>3, <1>4, <1>5, <1>6, <2>6, <2>8, <2>9, <2>11 DEF MuxerInv
<1> QED BY <1>7, <1>8

(* The end of the stream.                                                  *)
LEMMA FlushOutKeeps == ASSUME MuxerInv, FlushOut PROVE MuxerInv'
<1>1. ~ended /\ ended' = TRUE /\ mux' = mux /\ muxed' = muxed
  BY DEF FlushOut
<1>2. /\ mux \in MuxState /\ written \in Writing /\ muxed \in 0..MaxFrames
      /\ ended \in BOOLEAN /\ completed \in Seq(Done) /\ written.cc["META"] = 0
      /\ \A n \in 1..Len(completed) :
          Laid(completed[n].packets, completed[n].first, completed[n].frames)
      /\ mux.started => Laid(written.packets, mux.first, mux.count)
      /\ ~mux.started => /\ mux.count = 0
                         /\ written.packets = << >> /\ completed = << >>
      /\ Chain(completed, written.packets, written.cc)
  BY <1>1 DEF MuxerInv
<1>3. mux.started \in BOOLEAN /\ mux.first \in Nat /\ mux.count \in Nat
  BY <1>2 DEF MuxState
<1>4. CASE ~Flushes(mux)
  <2>1. completed' = completed /\ written' = written
    BY <1>4 DEF FlushOut
  <2>2. ~mux.started
    BY <1>2, <1>3, <1>4 DEF Flushes, Laid
  <2> QED BY <1>1, <1>2, <2>1, <2>2 DEF MuxerInv
<1>5. CASE Flushes(mux)
  <2>1. completed' = Append(completed, Finished) /\ written' = [written EXCEPT !.packets = << >>]
    BY <1>5 DEF FlushOut
  <2>2. mux.started
    BY <1>2, <1>3, <1>5 DEF Flushes
  <2>3. written' \in Writing /\ written'.packets = << >> /\ written'.cc = written.cc
    <3>1. written \in [packets : Seq(TsPacket), cc : [Pid -> Counters]] /\ << >> \in Seq(TsPacket)
      BY <1>2 DEF Writing
    <3>2. written' \in [packets : Seq(TsPacket), cc : [Pid -> Counters]]
      BY <2>1, <3>1
    <3>3. written'.packets = << >> /\ written'.cc = written.cc
      BY <2>1, <3>1
    <3> QED BY <3>2, <3>3 DEF Writing
  <2>4. /\ Finished \in Done /\ Finished.packets = written.packets
        /\ Finished.first = mux.first /\ Finished.frames = mux.count
    <3>1. written.packets \in Seq(TsPacket)
      BY <1>2 DEF Writing
    <3> QED BY <1>3, <3>1 DEF Finished, Done
  <2> DEFINE d == Finished
  <2> HIDE DEF d
  <2>5. d \in Done /\ d.packets = written.packets /\ Laid(d.packets, d.first, d.frames)
    BY <1>2, <2>2, <2>4 DEF d
  <2>6. d.packets # << >>
    <3>1. d.packets \in Seq(TsPacket)
      BY <2>5 DEF Done
    <3> QED BY <2>5, <3>1, NotEmpty
  <2>7. completed' = Append(completed, d)
    BY <2>1 DEF d
  <2>8. Chain(Append(completed, d), << >>, written.cc)
    <3>1. Chain(completed, d.packets, written.cc)
      BY <1>2, <2>5
    <3> QED BY <1>2, <2>5, <2>6, <3>1, ChainGrows
  <2>9. completed' \in Seq(Done) /\ Len(completed') = Len(completed) + 1
         /\ completed'[Len(completed) + 1] = d
         /\ \A i \in 1..Len(completed) : completed'[i] = completed[i]
    <3>1. completed \in Seq(Done) /\ d \in Done
      BY <1>2, <2>5
    <3>2. Append(completed, d) \in Seq(Done)
      BY <3>1
    <3> QED BY <2>7, <3>1, <3>2, AppendProperties
  <2>10. \A n \in 1..Len(completed') :
             Laid(completed'[n].packets, completed'[n].first, completed'[n].frames)
    <3>1. Len(completed) \in Nat
      BY <1>2, LenProperties
    <3>2. \A n \in 1..Len(completed') : n \in 1..Len(completed) \/ n = Len(completed) + 1
      BY <2>9, <3>1
    <3> QED BY <1>2, <2>5, <2>9, <3>2
  <2>11. Chain(completed', written'.packets, written'.cc)
    BY <2>3, <2>7, <2>8
  <2> QED BY <1>1, <1>2, <2>3, <2>9, <2>10, <2>11 DEF MuxerInv
<1> QED BY <1>4, <1>5

LEMMA MuxerStepInv == MuxerInv /\ [Next]_vars => MuxerInv'
<1> SUFFICES ASSUME MuxerInv, [Next]_vars PROVE MuxerInv'
  OBVIOUS
<1>1. CASE \E len \in AudioLengths, tagLen \in TagLengths : MuxFrame(len, tagLen)
  BY <1>1, MuxFrameKeeps
<1>2. CASE FlushOut
  BY <1>2, FlushOutKeeps
<1>3. CASE UNCHANGED vars
  BY <1>3 DEF MuxerInv, vars, Done, Laid
<1> QED BY <1>1, <1>2, <1>3 DEF Next
-----------------------------------------------------------------------------
(* What a segment comes to.                                                *)

(* Where the packets of each stream are, and how their counters go on.     *)
Ordered(seg, lead) ==
    /\ DOMAIN seg = 1..Len(seg) /\ Len(seg) \in Nat
    /\ lead \in Nat /\ lead >= 2 /\ lead + 1 \in 1..Len(seg)
    /\ \A i \in 1..Len(seg) :
          /\ seg[i].pid \in Pid
          /\ seg[i].pid = "PAT" <=> i = 1
          /\ seg[i].pid = "PMT" <=> i = 2
          /\ seg[i].pid = "AUDIO" <=> i > lead
          /\ i > lead + 1 => seg[i].cc = After(seg[i - 1].cc)
          /\ seg[i].pid = "META" =>
                seg[i].cc = IF seg[i].pusi THEN 0 ELSE After(seg[i - 1].cc)
    /\ seg[lead + 1].pcr

LEMMA LaidBounds ==
    ASSUME NEW seg, NEW lead \in Nat, NEW first, NEW count, count > 0,
           LaidOut(seg, lead, first, count)
    PROVE  /\ seg \in Seq(TsPacket) /\ Len(seg) \in Nat /\ DOMAIN seg = 1..Len(seg)
           /\ lead >= 2 /\ lead < Len(seg)
           /\ \A i \in 1..Len(seg) : Placed(seg, i, lead, first)
           /\ seg[1].pid = "PAT" /\ seg[2].pid = "PMT" /\ (seg[2].tag <=> lead > 2)
           /\ Framed(seg, lead, first, count)
<1>1. seg \in Seq(TsPacket)
  BY DEF LaidOut
<1>2. Len(seg) \in Nat /\ DOMAIN seg = 1..Len(seg)
  BY <1>1, LenProperties
<1>3. lead \in 2..Len(seg) /\ lead < Len(seg)
  BY DEF LaidOut
<1> QED BY <1>1, <1>2, <1>3 DEF LaidOut

LEMMA LaidFits ==
    ASSUME NEW seg, NEW lead \in Nat, NEW first, NEW count, count > 0,
           LaidOut(seg, lead, first, count)
    PROVE  PacketsFit(seg)
<1>1. DOMAIN seg = 1..Len(seg) /\ \A i \in 1..Len(seg) : Placed(seg, i, lead, first)
  BY LaidBounds
<1>2. \A i \in DOMAIN seg : Fits(seg[i])
  BY <1>1 DEF Placed
<1> QED BY <1>2 DEF PacketsFit, Fits

LEMMA LaidWhole ==
    ASSUME NEW seg, NEW lead \in Nat, NEW first, NEW count, count > 0,
           LaidOut(seg, lead, first, count)
    PROVE  PesWhole(seg)
<1>1. /\ DOMAIN seg = 1..Len(seg) /\ \A i \in 1..Len(seg) : Placed(seg, i, lead, first)
      /\ Len(seg) \in Nat /\ lead >= 2 /\ lead < Len(seg)
  BY LaidBounds
<1>2. ASSUME NEW i \in 1..Len(seg), seg[i].offset > 0
      PROVE  /\ i > 1 /\ seg[i - 1].pid = seg[i].pid
             /\ seg[i - 1].offset + seg[i - 1].payload = seg[i].offset
  <2>1. /\ i > 3 /\ i # lead + 1
        /\ seg[i - 1].offset + seg[i - 1].payload = seg[i].offset
    BY <1>1, <1>2 DEF Placed
  <2>2. i - 1 \in 1..Len(seg) /\ i > 2 /\ i - 1 > 2 /\ (i <= lead <=> i - 1 <= lead)
    BY <1>1, <2>1
  <2>3. /\ seg[i].pid = IF i <= lead THEN "META" ELSE "AUDIO"
        /\ seg[i - 1].pid = IF i - 1 <= lead THEN "META" ELSE "AUDIO"
    BY <1>1, <2>2 DEF Placed
  <2> QED BY <2>1, <2>2, <2>3
<1>3. \A i \in 1..Len(seg) :
         /\ seg[i].pusi <=> seg[i].offset = 0
         /\ ~(seg[i].offset + seg[i].payload = seg[i].of)
               => i < Len(seg) /\ seg[i + 1].offset > 0
  BY <1>1 DEF Placed
<1> QED BY <1>1, <1>2, <1>3 DEF PesWhole

LEMMA LaidInLayout ==
    ASSUME NEW seg, NEW lead \in Nat, NEW first, NEW count, count > 0,
           LaidOut(seg, lead, first, count)
    PROVE  Layout(seg)
<1>1. /\ DOMAIN seg = 1..Len(seg) /\ \A i \in 1..Len(seg) : Placed(seg, i, lead, first)
      /\ Len(seg) \in Nat /\ lead >= 2 /\ lead < Len(seg)
      /\ seg[1].pid = "PAT" /\ seg[2].pid = "PMT" /\ (seg[2].tag <=> lead > 2)
  BY LaidBounds
<1>2. lead \in 2..(Len(seg) - 1) /\ lead + 1 \in 1..Len(seg) /\ lead + 1 \in 3..(lead + 1)
  BY <1>1
<1>3. \A i \in 3..Len(seg) : i \in 1..Len(seg) /\ i > 2
  BY <1>1
<1>4. \A i \in 3..Len(seg) : seg[i].pid = IF i <= lead THEN "META" ELSE "AUDIO"
  BY <1>1, <1>3 DEF Placed
<1>5. \A i \in DOMAIN seg : seg[i].pcr <=> i = lead + 1
  BY <1>1 DEF Placed
<1>6. \A i \in 3..lead : i \in 1..Len(seg) /\ i \in 3..(lead + 1)
  BY <1>1
<1>7. \A i \in 3..lead : seg[i].frame = seg[lead + 1].frame
  BY <1>1, <1>2, <1>6 DEF Placed
<1> QED BY <1>1, <1>2, <1>4, <1>5, <1>7 DEF Layout

LEMMA LaidOrdered ==
    ASSUME NEW seg, NEW lead \in Nat, NEW first, NEW count, count > 0,
           LaidOut(seg, lead, first, count)
    PROVE  Ordered(seg, lead)
<1>1. /\ DOMAIN seg = 1..Len(seg) /\ \A i \in 1..Len(seg) : Placed(seg, i, lead, first)
      /\ seg \in Seq(TsPacket) /\ Len(seg) \in Nat /\ lead >= 2 /\ lead < Len(seg)
      /\ seg[1].pid = "PAT" /\ seg[2].pid = "PMT"
  BY LaidBounds
<1>2. lead + 1 \in 1..Len(seg) /\ lead >= 2
  BY <1>1
<1>3. seg[lead + 1].pcr
  BY <1>1, <1>2 DEF Placed
<1>4. ASSUME NEW i \in 1..Len(seg)
      PROVE  /\ seg[i].pid \in Pid
             /\ seg[i].pid = "PAT" <=> i = 1
             /\ seg[i].pid = "PMT" <=> i = 2
             /\ seg[i].pid = "AUDIO" <=> i > lead
             /\ i > lead + 1 => seg[i].cc = After(seg[i - 1].cc)
             /\ seg[i].pid = "META" =>
                   seg[i].cc = IF seg[i].pusi THEN 0 ELSE After(seg[i - 1].cc)
  <2>1. seg[i].pid \in Pid
    BY <1>1, PacketTypes
  <2>2. /\ i > 2 => seg[i].pid = IF i <= lead THEN "META" ELSE "AUDIO"
        /\ i > lead + 1 => seg[i].cc = After(seg[i - 1].cc)
        /\ i \in 3..lead => seg[i].cc = IF seg[i].pusi THEN 0 ELSE After(seg[i - 1].cc)
    BY <1>1 DEF Placed
  <2>3. /\ i = 1 \/ i = 2 \/ i > 2
        /\ i > lead => i > 2
        /\ i > 2 /\ i <= lead => i \in 3..lead
        /\ i <= lead \/ i > lead
        /\ ~(1 > lead) /\ ~(2 > lead) /\ ~(1 > 2) /\ ~(2 > 2) /\ 1 # 2
    BY <1>1
  <2> QED BY <1>1, <2>1, <2>2, <2>3
<1> QED BY <1>1, <1>2, <1>3, <1>4 DEF Ordered

LEMMA LaidLasts ==
    ASSUME NEW seg, NEW lead \in Nat, NEW first, NEW count, count > 0,
           LaidOut(seg, lead, first, count)
    PROVE  DurationTrue(seg, first, count)
<1>1. Ordered(seg, lead) /\ Framed(seg, lead, first, count)
  BY LaidBounds, LaidOrdered
<1> DEFINE starts == {i \in DOMAIN seg : seg[i].pid = "AUDIO" /\ seg[i].pusi}
<1>2. \A i \in starts : i \in (lead + 1)..Len(seg) /\ seg[i].pusi
  BY <1>1 DEF Ordered
<1>3. \A i \in (lead + 1)..Len(seg) : seg[i].pusi => i \in starts
  BY <1>1 DEF Ordered
<1> DEFINE numbers == first..(first + count - 1)
<1>4. /\ \A i \in (lead + 1)..Len(seg) : seg[i].frame \in numbers
      /\ \A i, j \in (lead + 1)..Len(seg) : i < j /\ seg[j].pusi => seg[i].frame < seg[j].frame
      /\ \A g \in numbers : \E i \in (lead + 1)..Len(seg) : seg[i].pusi /\ seg[i].frame = g
  BY <1>1 DEF Framed
<1> HIDE DEF starts, numbers
<1>5. {seg[i].frame : i \in starts} = numbers
  BY <1>2, <1>3, <1>4
<1>6. \A i, j \in starts : i < j => seg[i].frame < seg[j].frame
  BY <1>2, <1>4
<1> QED BY <1>5, <1>6 DEF DurationTrue, starts, numbers

(* The segments so far.                                                    *)
LEMMA SegmentsAre ==
    ASSUME MuxerInv
    PROVE  /\ SegmentsSoFar \in Nat
           /\ \A n \in 1..SegmentsSoFar : \E lead, first, count :
                 lead \in Nat /\ count > 0 /\ LaidOut(Seg(n), lead, first, count)
           /\ \A n \in 1..(SegmentsSoFar - 1) : Joins(Seg(n), Seg(n + 1))
<1> DEFINE L == Len(completed)
<1>1. /\ completed \in Seq(Done) /\ L \in Nat
      /\ \A n \in 1..L : Laid(completed[n].packets, completed[n].first, completed[n].frames)
      /\ \A n \in 1..(L - 1) : Joins(completed[n].packets, completed[n + 1].packets)
      /\ written.packets # << >> /\ L > 0 => Joins(completed[L].packets, written.packets)
      /\ written.packets # << >> => Laid(written.packets, mux.first, mux.count)
  BY LenProperties DEF MuxerInv, Chain
<1>2. /\ \A n \in 1..L : Seg(n) = completed[n].packets
      /\ Seg(L + 1) = written.packets
  BY <1>1 DEF Seg
<1>3. SegmentsSoFar = IF written.packets = << >> THEN L ELSE L + 1
  BY <1>1 DEF SegmentsSoFar
<1> HIDE DEF L
<1>4. SegmentsSoFar \in Nat
  BY <1>1, <1>3
<1>5. \A n \in 1..SegmentsSoFar : n \in 1..L \/ (n = L + 1 /\ written.packets # << >>)
  <2>1. CASE written.packets = << >>
    <3>1. SegmentsSoFar = L
      BY <1>3, <2>1
    <3>2. \A n \in 1..SegmentsSoFar : n \in 1..L
      BY <3>1, Zenon
    <3> QED BY <3>2, Zenon
  <2>2. CASE written.packets # << >>
    <3>1. SegmentsSoFar = L + 1
      BY <1>3, <2>2
    <3>2. \A n \in 1..(L + 1) : n \in 1..L \/ n = L + 1
      BY <1>1
    <3> QED BY <2>2, <3>1, <3>2
  <2> QED BY <2>1, <2>2
<1>6. \A n \in 1..SegmentsSoFar : \E first, count : Laid(Seg(n), first, count)
  BY <1>1, <1>2, <1>5
<1>7. \A n \in 1..(SegmentsSoFar - 1) :
         \/ n \in 1..(L - 1) /\ n \in 1..L /\ n + 1 \in 1..L
         \/ n = L /\ L > 0 /\ n \in 1..L /\ written.packets # << >>
  BY <1>1, <1>3
<1>8. \A n \in 1..(SegmentsSoFar - 1) : Joins(Seg(n), Seg(n + 1))
  BY <1>1, <1>2, <1>7
<1> QED BY <1>4, <1>6, <1>8 DEF Laid

LEMMA MuxerTypes == MuxerInv => TypeOK
<1> SUFFICES ASSUME MuxerInv PROVE TypeOK
  OBVIOUS
<1>1. /\ mux \in MuxState /\ written \in Writing /\ muxed \in 0..MaxFrames
      /\ ended \in BOOLEAN /\ completed \in Seq(Done)
  BY DEF MuxerInv
<1>2. written.packets \in Seq(TsPacket) /\ written.cc \in [Pid -> 0..(CcMod - 1)]
  BY <1>1 DEF Writing, Counters
<1>3. \A i \in DOMAIN completed : completed[i] \in Done
  BY <1>1, LenProperties
<1> QED BY <1>1, <1>2, <1>3 DEF TypeOK, Done

(* A stream's next packet, in the same segment or the next one.            *)
LEMMA NextInOne ==
    ASSUME NEW m \in 1..SegmentsSoFar, NEW lead, Ordered(Seg(m), lead),
           NEW i \in DOMAIN Seg(m), NEW j \in DOMAIN Seg(m), Follows(m, j, m, i),
           Seg(m)[i].pid # "META"
    PROVE  Seg(m)[j].cc = After(Seg(m)[i].cc)
<1> DEFINE s == Seg(m)
<1>1. /\ i < j /\ s[j].pid = s[i].pid
      /\ \A k \in DOMAIN s : s[k].pid = s[i].pid => ~(i < k /\ k < j)
  <2>1. m \in m..m /\ ~(m < m)
    OBVIOUS
  <2> QED BY <2>1 DEF Follows, Earlier
<1> HIDE DEF s
<1>2. Ordered(s, lead)
  BY DEF s
<1>3. /\ i \in 1..Len(s) /\ j \in 1..Len(s) /\ Len(s) \in Nat /\ lead \in Nat
      /\ s[i].pid \in {"PAT", "PMT", "AUDIO"}
      /\ \A k \in 1..Len(s) : k \in DOMAIN s
      /\ \A k \in 1..Len(s) : /\ s[k].pid = "PAT" <=> k = 1
                              /\ s[k].pid = "PMT" <=> k = 2
                              /\ s[k].pid = "AUDIO" <=> k > lead
                              /\ k > lead + 1 => s[k].cc = After(s[k - 1].cc)
  BY <1>2 DEF s, Ordered, Pid
<1>4. s[i].pid = "AUDIO"
  BY <1>1, <1>3
<1>5. i > lead /\ j > lead
  BY <1>1, <1>3, <1>4
<1>6. CASE j = i + 1
  <2>1. j > lead + 1 /\ j - 1 = i
    BY <1>3, <1>5, <1>6
  <2> QED BY <1>3, <2>1 DEF s
<1>7. CASE j # i + 1
  <2>1. i + 1 \in 1..Len(s) /\ i + 1 > lead /\ i < i + 1 /\ i + 1 < j
    BY <1>1, <1>3, <1>5, <1>7
  <2> QED BY <1>1, <1>3, <1>4, <2>1
<1> QED BY <1>6, <1>7

LEMMA NextInTwo ==
    ASSUME NEW m \in 1..SegmentsSoFar, NEW n \in m..SegmentsSoFar, m < n,
           SegmentsSoFar \in Nat,
           \A o \in 1..SegmentsSoFar : \E lead : Ordered(Seg(o), lead),
           \A o \in 1..(SegmentsSoFar - 1) : Joins(Seg(o), Seg(o + 1)),
           NEW i \in DOMAIN Seg(m), NEW j \in DOMAIN Seg(n), Follows(n, j, m, i),
           Seg(m)[i].pid # "META"
    PROVE  Seg(n)[j].cc = After(Seg(m)[i].cc)
<1> DEFINE s == Seg(m)
           t == Seg(n)
           u == Seg(m + 1)
<1>1. /\ m \in Nat /\ n \in Nat /\ n \in 1..SegmentsSoFar /\ m + 1 \in 1..SegmentsSoFar
      /\ m \in 1..(SegmentsSoFar - 1) /\ m \in m..n /\ n \in m..n /\ m + 1 \in m..n
      /\ ~(m < m) /\ ~(n < n) /\ ~(n < m) /\ m # n /\ m < m + 1
      /\ n = m + 1 \/ m + 1 < n
  BY SMT
<1>2. PICK g : Ordered(s, g)
  BY <1>1
<1>3. PICK h : Ordered(t, h)
  BY <1>1
<1>4. PICK e : Ordered(u, e)
  BY <1>1
<1>5. Joins(s, u)
  BY <1>1
<1>6. /\ t[j].pid = s[i].pid
      /\ \A o \in m..n : \A k \in DOMAIN Seg(o) :
            Seg(o)[k].pid = s[i].pid => ~(Earlier(m, i, o, k) /\ Earlier(o, k, n, j))
  BY DEF Follows
<1>7. \A k \in DOMAIN s : s[k].pid = s[i].pid => ~(i < k)
  BY <1>1, <1>6 DEF Earlier
<1>8. \A k \in DOMAIN t : t[k].pid = s[i].pid => ~(k < j)
  BY <1>1, <1>6 DEF Earlier
<1>9. m + 1 < n => \A k \in DOMAIN u : u[k].pid # s[i].pid
  BY <1>1, <1>6 DEF Earlier
<1>10. n = m + 1 => t = u
  OBVIOUS
<1> HIDE DEF s, t, u
<1>11. /\ i \in 1..Len(s) /\ j \in 1..Len(t)
       /\ Len(s) \in Nat /\ Len(t) \in Nat /\ Len(u) \in Nat
       /\ s[i].pid \in {"PAT", "PMT", "AUDIO"}
  BY <1>2, <1>3, <1>4 DEF s, t, Ordered, Pid
<1>12. /\ 1 \in 1..Len(u) /\ 2 \in 1..Len(u) /\ e + 1 \in 1..Len(u) /\ DOMAIN u = 1..Len(u)
       /\ u[1].pid = "PAT" /\ u[2].pid = "PMT" /\ u[e + 1].pid = "AUDIO"
  <2>1. /\ e \in Nat /\ e >= 2 /\ e + 1 \in 1..Len(u) /\ DOMAIN u = 1..Len(u) /\ Len(u) \in Nat
    BY <1>4 DEF Ordered
  <2>2. 1 \in 1..Len(u) /\ 2 \in 1..Len(u) /\ e + 1 > e
    BY <2>1
  <2> QED BY <1>4, <2>1, <2>2 DEF Ordered
<1>13. n = m + 1 /\ t = u
  BY <1>1, <1>9, <1>10, <1>11, <1>12
<1>14. CASE s[i].pid = "PAT"
  <2>1. i = 1 /\ j = 1
    BY <1>2, <1>3, <1>6, <1>11, <1>14 DEF Ordered
  <2> QED BY <1>5, <1>13, <2>1 DEF Joins, s, t
<1>15. CASE s[i].pid = "PMT"
  <2>1. i = 2 /\ j = 2
    <3>1. i = 2
      BY <1>2, <1>11, <1>15 DEF Ordered
    <3>2. t[j].pid = "PMT"
      BY <1>6, <1>15
    <3> QED BY <1>3, <1>11, <3>1, <3>2 DEF Ordered
  <2> QED BY <1>5, <1>13, <2>1 DEF Joins, s, t
<1>16. CASE s[i].pid = "AUDIO"
  <2>1. i = Len(s)
    <3>1. i > g /\ g \in Nat /\ DOMAIN s = 1..Len(s)
      BY <1>2, <1>11, <1>16 DEF Ordered
    <3>2. ASSUME i # Len(s) PROVE FALSE
      <4>1. i + 1 \in 1..Len(s) /\ i + 1 > g /\ i < i + 1
        BY <1>11, <3>1, <3>2
      <4>2. s[i + 1].pid = "AUDIO"
        BY <1>2, <4>1 DEF Ordered
      <4> QED BY <1>7, <1>16, <3>1, <4>1, <4>2
    <3> QED BY <3>2
  <2>2. j = h + 1 /\ t[h + 1].pcr /\ h + 1 \in 1..Len(t)
    <3>1. j > h /\ h \in Nat /\ DOMAIN t = 1..Len(t) /\ h + 1 \in 1..Len(t) /\ t[h + 1].pcr
      <4>1. t[j].pid = "AUDIO"
        BY <1>6, <1>16
      <4>2. j > h
        BY <1>3, <1>11, <4>1 DEF Ordered
      <4> QED BY <1>3, <4>2 DEF Ordered
    <3>2. h + 1 > h
      BY <3>1
    <3>3. t[h + 1].pid = "AUDIO"
      BY <1>3, <3>1, <3>2 DEF Ordered
    <3>4. ~(h + 1 < j)
      BY <1>8, <1>16, <3>1, <3>3
    <3> QED BY <1>11, <3>1, <3>4
  <2>3. t[j].cc = After(s[Len(s)].cc)
    BY <1>5, <1>13, <2>2 DEF Joins
  <2> QED BY <2>1, <2>3 DEF s, t
<1> QED BY <1>11, <1>14, <1>15, <1>16

LEMMA MuxerSound == MuxerInv => PacketsSound /\ SegmentsSound
<1> SUFFICES ASSUME MuxerInv PROVE PacketsSound /\ SegmentsSound
  OBVIOUS
<1>1. /\ SegmentsSoFar \in Nat
      /\ \A n \in 1..SegmentsSoFar : \E lead, first, count :
            lead \in Nat /\ count > 0 /\ LaidOut(Seg(n), lead, first, count)
      /\ \A n \in 1..(SegmentsSoFar - 1) : Joins(Seg(n), Seg(n + 1))
  BY SegmentsAre
<1>2. ASSUME NEW n \in 1..SegmentsSoFar
      PROVE  /\ PacketsFit(Seg(n)) /\ PesWhole(Seg(n)) /\ Layout(Seg(n))
             /\ \E lead : Ordered(Seg(n), lead)
  <2>1. PICK lead, first, count : lead \in Nat /\ count > 0 /\ LaidOut(Seg(n), lead, first, count)
    BY <1>1
  <2> QED BY <2>1, LaidFits, LaidWhole, LaidInLayout, LaidOrdered
<1>3. \A seg \in Segments : PacketsFit(seg) /\ PesWhole(seg) /\ Layout(seg)
  BY <1>2 DEF Segments
<1>4. \A n \in DOMAIN completed :
         DurationTrue(completed[n].packets, completed[n].first, completed[n].frames)
  <2>1. completed \in Seq(Done)
    BY DEF MuxerInv
  <2>2. DOMAIN completed = 1..Len(completed)
    BY <2>1, LenProperties
  <2>3. ASSUME NEW n \in DOMAIN completed
        PROVE  DurationTrue(completed[n].packets, completed[n].first, completed[n].frames)
    <3>1. Laid(completed[n].packets, completed[n].first, completed[n].frames)
      BY <2>2 DEF MuxerInv
    <3> QED BY <3>1, LaidLasts DEF Laid
  <2> QED BY <2>3
<1>5. Continuous
  <2>1. ASSUME NEW m \in 1..SegmentsSoFar, NEW i \in DOMAIN Seg(m), Seg(m)[i].pid = "META"
        PROVE  Seg(m)[i].cc =
                   IF Seg(m)[i].pusi THEN 0 ELSE (Seg(m)[i - 1].cc + 1) % CcMod
    <3>1. PICK lead : Ordered(Seg(m), lead)
      BY <1>2
    <3> QED BY <2>1, <3>1 DEF Ordered, After
  <2>2. ASSUME NEW m \in 1..SegmentsSoFar, NEW i \in DOMAIN Seg(m), Seg(m)[i].pid # "META",
               NEW n \in m..SegmentsSoFar, NEW j \in DOMAIN Seg(n), Follows(n, j, m, i)
        PROVE  Seg(n)[j].cc = (Seg(m)[i].cc + 1) % CcMod
    <3>1. CASE n = m
      <4>1. PICK lead : Ordered(Seg(m), lead)
        BY <1>2
      <4>2. j \in DOMAIN Seg(m) /\ Follows(m, j, m, i)
        BY <2>2, <3>1
      <4>3. Seg(m)[j].cc = After(Seg(m)[i].cc)
        BY <2>2, <4>1, <4>2, NextInOne
      <4> QED BY <3>1, <4>3 DEF After
    <3>2. CASE n # m
      <4>1. m < n
        BY <1>1, <3>2
      <4>2. \A o \in 1..SegmentsSoFar : \E lead : Ordered(Seg(o), lead)
        BY <1>2
      <4>3. Seg(n)[j].cc = After(Seg(m)[i].cc)
        BY <1>1, <2>2, <4>1, <4>2, NextInTwo
      <4> QED BY <4>3 DEF After
    <3> QED BY <3>1, <3>2
  <2> QED BY <2>1, <2>2 DEF Continuous
<1> QED BY <1>3, <1>4, <1>5 DEF PacketsSound, SegmentsSound

-----------------------------------------------------------------------------
(* Every segment is laid out for its first frame and its number of frames, *)
(* and goes on with the counters where the one before it stopped.          *)
THEOREM MuxerInvariant == Spec => []MuxerInv
<1> QED BY MuxerInitInv, MuxerStepInv, PTL DEF Spec

(* The muxer's state is what it is meant to be: a counter has four bits.   *)
THEOREM MuxerTypeCorrect == Spec => []TypeOK
<1> QED BY MuxerInvariant, MuxerTypes, PTL

(* Whatever the lengths of the PES, write_pes_to_ts fills every packet, no *)
(* PES is cut by a segment, and no counter jumps where segments join.      *)
THEOREM PacketsAreSound == Spec => []PacketsSound
<1> QED BY MuxerInvariant, MuxerSound, PTL

(* Every segment has the layout a player needs to start with it, and the   *)
(* frames its duration in the playlist counts.                             *)
THEOREM SegmentsAreSound == Spec => []SegmentsSound
<1> QED BY MuxerInvariant, MuxerSound, PTL

-----------------------------------------------------------------------------
(* The five, as they are checked.                                          *)

AudioPathInv == DemuxInv /\ IndInv /\ PcmInv /\ AdtsInv /\ MuxerInv

LEMMA AudioPathStep ==
    ASSUME [AudioPathNext]_audioPathVars
    PROVE  /\ [DemuxNext]_demuxVars /\ [PesNext]_pesVars /\ [PcmNext]_pcmVars
           /\ [AdtsNext]_adtsVars /\ [Next]_vars
BY DEF AudioPathNext, audioPathVars

(* One station's steps leave the others as they are.                       *)
THEOREM AudioPathInvariant == AudioPathSpec => []AudioPathInv
<1>1. AudioPathInit => AudioPathInv
  BY DemuxInitInv, InitIndInv, PcmInitInv, AdtsInitInv, MuxerInitInv
     DEF AudioPathInit, AudioPathInv
<1>2. AudioPathInv /\ [AudioPathNext]_audioPathVars => AudioPathInv'
  BY AudioPathStep, DemuxStepInv, StepIndInv, PcmStepInv, AdtsStepInv, MuxerStepInv
     DEF AudioPathInv
<1> QED BY <1>1, <1>2, PTL DEF AudioPathSpec

(* The states TLC goes through are what they are meant to be, whatever the *)
(* constants.                                                              *)
THEOREM AudioPathTypeCorrect == AudioPathSpec => []AudioPathTypeOK
<1>1. AudioPathInv => AudioPathTypeOK
  BY MuxerTypes DEF AudioPathInv, AudioPathTypeOK, DemuxInv, IndInv, PcmInv, AdtsInv
<1> QED BY <1>1, AudioPathInvariant, PTL
=============================================================================
