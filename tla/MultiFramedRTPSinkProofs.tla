---------------------- MODULE MultiFramedRTPSinkProofs ----------------------
(***************************************************************************)
(* What MultiFramedRTPSink promises, for all sizes, formats and frames:    *)
(* TypeOK, BytesKept and FragmentsTold.                                    *)
(*                                                                         *)
(* The parts that are in the packet lie in front of where the next byte    *)
(* goes, and the overflow data behind it, so that neither headers nor      *)
(* frames are written over them.                                           *)
(***************************************************************************)
EXTENDS MultiFramedRTPSink, TLAPS, FiniteSetTheorems, SequenceTheorems, WellFoundedInduction

Buffer ==
  [bytes : [0..(Limit - 1) -> Byte], packetStart : Nat, curOffset : Nat,
   overflowOffset : Nat, overflowSize : Nat]

Part == [start : Nat, bytes : Nat, offset : Nat, remaining : Nat]

(* The headers at a packet's start, in front of those of frames. *)
FrontHeaders == RtpHeaderSize + format.special

Overflow == Extract(out, out.overflowOffset, out.overflowSize)

(* The parts in the packet lie between its headers and a position, and their *)
(* bytes are what the packet has besides headers.                            *)
PartsBefore(end) ==
  /\ \A i \in DOMAIN packed :
       packed[i].start >= FrontHeaders /\ packed[i].start + packed[i].bytes <= end
  /\ Len(Payload) = out.curOffset - FrontHeaders - headerSizes

(* Where things lie in the buffer, which has room for a packet more. *)
Placed ==
  /\ out.packetStart + MaxPacket <= Limit
  /\ phase = "stopped" =>
       out.packetStart = 0 /\ out.curOffset = 0 /\ ~HaveOverflowData(out) /\ owed = <<>>
  /\ phase = "waiting" =>
       out.curOffset = 0 /\ packed = <<>> /\ ~noFramesLeft
  /\ phase = "pack" =>
       /\ out.curOffset >= FrontHeaders /\ out.curOffset < Preferred /\ ~noFramesLeft
       /\ packed # <<>> => ~HaveOverflowData(out)
       /\ packed = <<>> => out.curOffset = FrontHeaders
       /\ PartsBefore(out.curOffset)
  /\ phase = "reading" =>
       /\ out.curOffset >= AllHeaders /\ out.curOffset < Preferred + format.specific
       /\ ~HaveOverflowData(out) /\ ~noFramesLeft
       /\ packed = <<>> => out.curOffset = AllHeaders
       /\ PartsBefore(out.curOffset - format.specific)
  /\ phase = "send" =>
       /\ out.curOffset >= AllHeaders /\ out.curOffset <= MaxPacket
       /\ noFramesLeft => ~HaveOverflowData(out)
       /\ PartsBefore(out.curOffset)
  /\ HaveOverflowData(out) =>
       out.overflowOffset >= (IF phase = "send" THEN out.curOffset ELSE AllHeaders)

(* Who is in the middle of a frame has the rest of it as overflow data, and  *)
(* fCurFragmentationOffset says which part that is, unless the sink was      *)
(* stopped within a frame before.                                            *)
Divided ==
  /\ \A k \in DOMAIN owed : owed[k][1] <= frames
  /\ \A k \in 1..out.overflowSize : Overflow[k] = <<frames, Overflow[1][2] + k - 1>>
  /\ HaveOverflowData(out) /\ (~stale \/ fragmentationOffset = 0) =>
       Overflow[1][2] = fragmentationOffset + 1
  /\ ~HaveOverflowData(out) /\ ~stale => fragmentationOffset = 0
  /\ ~stale /\ phase \in {"pack", "reading"} /\ packed # <<>> /\ packed[1].offset > 0 =>
       format.othersAfterLast

IInv == out \in Buffer /\ TypeOK /\ Placed /\ BytesKept /\ Divided /\ FragmentsTold
-----------------------------------------------------------------------------
(* The sizes, as the assumption says. *)
LEMMA Sizes ==
  ASSUME NEW f \in Formats
  PROVE  /\ RtpHeaderSize \in Nat /\ Preferred \in Nat /\ MaxPacket \in Nat /\ Limit \in Nat
         /\ MaxFrames \in Nat /\ FrameSizes \subseteq Nat /\ 2 * MaxPacket <= Limit
         /\ f.special \in Nat /\ f.specific \in Nat
         /\ f.fragmentsAfterStart \in BOOLEAN /\ f.othersAfterLast \in BOOLEAN
         /\ f.canFollow \subseteq BOOLEAN
         /\ RtpHeaderSize + f.special + f.specific < Preferred
         /\ Preferred + f.specific <= MaxPacket
  BY SizesAssumption DEF SizesAssumption, FormatType

LEMMA HeaderIsByte == Header \in Byte
  BY DEF Byte

LEMMA BytesArePairs ==
  ASSUME Limit \in Nat, MaxFrames \in Nat, NEW x \in Byte
  PROVE  x \in Nat \X Nat /\ x[1] \in Nat /\ x[2] \in Nat
<1>1. x = <<0, 0>> \/ x \in (1..MaxFrames) \X (1..Limit)
  BY DEF Byte, Header
<1>2. x \in Nat \X Nat
  BY <1>1
<1> QED BY <1>2

LEMMA SetOverflow ==
  ASSUME NEW b \in Buffer, NEW offset \in Nat, NEW size \in Nat,
         NEW c, c = SetOverflowData(b, offset, size)
  PROVE  /\ c \in Buffer /\ c.bytes = b.bytes /\ c.packetStart = b.packetStart
         /\ c.curOffset = b.curOffset /\ c.overflowOffset = offset /\ c.overflowSize = size
  BY DEF SetOverflowData, Buffer

(* The empty packet that begins there, whose overflow data are there.        *)
Moved(b, start, offset) ==
  [b EXCEPT !.packetStart = start, !.overflowOffset = offset, !.curOffset = 0]

LEMMA Relocate ==
  ASSUME NEW b \in Buffer, NEW start \in Nat, NEW offset \in Nat
  PROVE  /\ Moved(b, start, offset) \in Buffer
         /\ Moved(b, start, offset).bytes = b.bytes
         /\ Moved(b, start, offset).packetStart = start
         /\ Moved(b, start, offset).curOffset = 0
         /\ Moved(b, start, offset).overflowOffset = offset
         /\ Moved(b, start, offset).overflowSize = b.overflowSize
<1>1. PICK c : c = Moved(b, start, offset)
  OBVIOUS
<1>2. c = [bytes |-> b.bytes, packetStart |-> start, curOffset |-> 0,
           overflowOffset |-> offset, overflowSize |-> b.overflowSize]
  BY <1>1 DEF Buffer, Moved
<1>3. b.bytes \in [0..(Limit - 1) -> Byte] /\ b.overflowSize \in Nat
  BY DEF Buffer
<1> QED BY <1>1, <1>2, <1>3 DEF Buffer

(* Insert writes the data at their place and nothing else. *)
LEMMA InsertWrites ==
  ASSUME Limit \in Nat, NEW b \in Buffer, NEW data \in Seq(Byte), NEW to \in Nat,
         b.packetStart + to + Len(data) <= Limit, NEW c, c = Insert(b, data, to)
  PROVE  /\ c \in Buffer
         /\ c.packetStart = b.packetStart /\ c.curOffset = b.curOffset
         /\ c.overflowOffset = b.overflowOffset /\ c.overflowSize = b.overflowSize
         /\ \A p \in 0..(Limit - 1) :
              c.bytes[p] = IF b.packetStart + to <= p /\ p < b.packetStart + to + Len(data)
                           THEN data[p - (b.packetStart + to) + 1] ELSE b.bytes[p]
<1>1. PICK first, n, B :
        /\ first = b.packetStart + to /\ n = Len(data)
        /\ B = [p \in DOMAIN b.bytes \union first..(first + n - 1) |->
                 IF p \in first..(first + n - 1) THEN data[p - first + 1] ELSE b.bytes[p]]
  OBVIOUS
<1>2. c = [b EXCEPT !.bytes = B]
  BY <1>1 DEF Insert
<1>3. b.bytes \in [0..(Limit - 1) -> Byte] /\ b.packetStart \in Nat
  BY DEF Buffer
<1>4. first \in Nat /\ n \in Nat /\ first + n <= Limit
  BY <1>1, <1>3
<1>5. 0..(Limit - 1) \union first..(first + n - 1) = 0..(Limit - 1)
  BY <1>4
<1>6. B = [p \in 0..(Limit - 1) |->
             IF p \in first..(first + n - 1) THEN data[p - first + 1] ELSE b.bytes[p]]
  BY <1>1, <1>3, <1>5
<1>7. ASSUME NEW p \in 0..(Limit - 1)
      PROVE  /\ B[p] = IF first <= p /\ p < first + n THEN data[p - first + 1] ELSE b.bytes[p]
             /\ B[p] \in Byte
  <2>1. B[p] = IF first <= p /\ p < first + n THEN data[p - first + 1] ELSE b.bytes[p]
    BY <1>4, <1>6
  <2>2. PICK j : j = p - first + 1
    OBVIOUS
  <2>3. first <= p /\ p < first + n => j \in 1..n
    BY <1>4, <2>2
  <2>4. j \in 1..n => data[j] \in Byte
    BY <1>1
  <2>5. b.bytes[p] \in Byte
    BY <1>3
  <2> QED BY <2>1, <2>2, <2>3, <2>4, <2>5
<1>8. B \in [0..(Limit - 1) -> Byte]
  BY <1>6, <1>7
<1> QED BY <1>1, <1>2, <1>7, <1>8 DEF Buffer

(* What Extract takes. *)
LEMMA ExtractTakes ==
  ASSUME Limit \in Nat, NEW b \in Buffer, NEW from \in Nat, NEW n \in Nat,
         n > 0 => b.packetStart + from + n <= Limit
  PROVE  /\ Extract(b, from, n) \in Seq(Byte)
         /\ Len(Extract(b, from, n)) = n
         /\ \A i \in 1..n : /\ Extract(b, from, n)[i] = b.bytes[b.packetStart + from + i - 1]
                            /\ b.packetStart + from + i - 1 \in 0..(Limit - 1)
<1>1. \A i \in 1..n : b.packetStart + from + i - 1 \in 0..(Limit - 1)
  BY DEF Buffer
<1>2. \A i \in 1..n : b.bytes[b.packetStart + from + i - 1] \in Byte
  BY <1>1 DEF Buffer
<1>3. Extract(b, from, n) \in [1..n -> Byte]
  BY <1>2 DEF Extract
<1> QED BY <1>1, <1>3 DEF Extract

(* What is extracted stays the same when its bytes do. *)
LEMMA ExtractSame ==
  ASSUME Limit \in Nat, NEW b \in Buffer, NEW c \in Buffer,
         NEW from \in Nat, NEW to \in Nat, NEW n \in Nat,
         \A i \in 1..n : c.bytes[c.packetStart + to + i - 1] = b.bytes[b.packetStart + from + i - 1]
  PROVE  Extract(c, to, n) = Extract(b, from, n)
  BY DEF Extract

-----------------------------------------------------------------------------
(* FlattenSeq.                                                             *)

LEMMA FlattenEmpty == FlattenSeq(<<>>) = <<>>
  BY DEF FlattenSeq

LEMMA LeastNatural ==
  ASSUME NEW T \in SUBSET Nat, T # {}
  PROVE  \E m \in T : \A n \in T : m <= n
<1> DEFINE R == {p \in Nat \X Nat : p[1] < p[2]}
<1>1. IsWellFoundedOn(R, Nat)
  <2>1. R = OpToRel(<, Nat)
    BY DEF OpToRel
  <2> QED BY <2>1, NatLessThanWellFounded
<1>2. PICK m \in T : \A n \in T : ~(<<n, m>> \in R)
  <2> HIDE DEF R
  <2> QED BY <1>1, WFMin
<1>3. ASSUME NEW n \in T
      PROVE  m <= n
  <2>1. n \in Nat /\ m \in Nat /\ (n < m => <<n, m>> \in R)
    OBVIOUS
  <2> HIDE DEF R
  <2> QED BY <1>2, <2>1
<1> QED BY <1>3

(* f holds what the first i sequences of s make, for each i up to n. *)
Flattens(f, s, n) == f = [i \in 1..n |-> IF i = 1 THEN s[i] ELSE f[i - 1] \o s[i]]

LEMMA FlattensExist ==
  ASSUME NEW s, NEW n \in Nat \ {0}
  PROVE  \E f : Flattens(f, s, n)
<1> DEFINE T == {m \in 1..n : ~ \E f : Flattens(f, s, m)}
<1>1. SUFFICES ASSUME T # {} PROVE FALSE
  BY n \in 1..n
<1>2. PICK m \in T : \A k \in T : m <= k
  <2>1. T \in SUBSET Nat
    OBVIOUS
  <2> HIDE DEF T
  <2> QED BY <1>1, <2>1, LeastNatural
<1>3. CASE m = 1
  <2> DEFINE f == [i \in 1..1 |-> s[i]]
  <2>1. Flattens(f, s, 1)
    BY DEF Flattens
  <2> QED BY <1>2, <1>3, <2>1
<1>4. CASE m > 1
  <2>1. PICK g : Flattens(g, s, m - 1)
    BY <1>2, <1>4
  <2> DEFINE f == [i \in 1..m |-> IF i = m THEN g[m - 1] \o s[m] ELSE g[i]]
  <2>2. ASSUME NEW i \in 1..m
        PROVE  f[i] = IF i = 1 THEN s[i] ELSE f[i - 1] \o s[i]
    <3>1. CASE i = m
      <4>1. m \in 1..m /\ m - 1 \in 1..m /\ m - 1 # m /\ m # 1
        BY <1>2, <1>4
      <4>2. f[m] = g[m - 1] \o s[m] /\ f[m - 1] = g[m - 1]
        BY <4>1
      <4> HIDE DEF f
      <4> QED BY <3>1, <4>1, <4>2
    <3>2. CASE i # m
      <4>1. i \in 1..(m - 1)
        BY <1>2, <1>4, <3>2
      <4>2. g[i] = IF i = 1 THEN s[i] ELSE g[i - 1] \o s[i]
        BY <2>1, <4>1 DEF Flattens
      <4>3. i # 1 => i - 1 \in 1..m /\ i - 1 # m
        BY <1>2, <1>4, <3>2
      <4> QED BY <3>2, <4>2, <4>3
    <3> QED BY <3>1, <3>2
  <2>3. f = [i \in 1..m |-> f[i]]
    OBVIOUS
  <2>4. Flattens(f, s, m)
    <3> HIDE DEF f
    <3> QED BY <2>2, <2>3 DEF Flattens
  <2> QED BY <1>2, <2>4
<1> QED BY <1>2, <1>3, <1>4

LEMMA FlattenIsLast ==
  ASSUME NEW s, NEW n \in Nat \ {0}, Len(s) = n
  PROVE  \E f : Flattens(f, s, n) /\ FlattenSeq(s) = f[n]
<1>1. PICK f : f = CHOOSE g : Flattens(g, s, n)
  OBVIOUS
<1>2. Flattens(f, s, n)
  BY <1>1, FlattensExist
<1>3. FlattenSeq(s) = f[n]
  BY <1>1 DEF FlattenSeq, Flattens
<1> QED BY <1>2, <1>3

(* All of what f holds are sequences, and they depend on those before only. *)
LEMMA FlattensAgree ==
  ASSUME NEW S, NEW n \in Nat \ {0}, NEW m \in Nat, n <= m, NEW s, NEW t, NEW f, NEW g,
         Flattens(f, s, n), Flattens(g, t, m),
         \A i \in 1..n : s[i] \in Seq(S) /\ s[i] = t[i]
  PROVE  \A i \in 1..n : f[i] \in Seq(S) /\ f[i] = g[i]
<1> DEFINE T == {i \in 1..n : ~(f[i] \in Seq(S) /\ f[i] = g[i])}
<1>1. SUFFICES ASSUME T # {} PROVE FALSE
  OBVIOUS
<1>2. PICK k \in T : \A i \in T : k <= i
  <2>1. T \in SUBSET Nat
    OBVIOUS
  <2> HIDE DEF T
  <2> QED BY <1>1, <2>1, LeastNatural
<1>3. k \in 1..n /\ k \in 1..m
  OBVIOUS
<1>4. /\ f[k] = IF k = 1 THEN s[k] ELSE f[k - 1] \o s[k]
      /\ g[k] = IF k = 1 THEN t[k] ELSE g[k - 1] \o t[k]
  BY <1>3 DEF Flattens
<1>5. CASE k = 1
  BY <1>3, <1>4, <1>5
<1>6. CASE k # 1
  <2>1. k - 1 \in 1..n /\ ~(k <= k - 1)
    BY <1>3, <1>6
  <2>2. f[k - 1] \in Seq(S) /\ f[k - 1] = g[k - 1]
    BY <1>2, <2>1
  <2>3. f[k - 1] \o s[k] \in Seq(S)
    BY <1>3, <2>2, ConcatProperties
  <2> QED BY <1>3, <1>4, <1>6, <2>2, <2>3
<1> QED BY <1>5, <1>6

LEMMA FlattenType ==
  ASSUME NEW S, NEW s \in Seq(Seq(S))
  PROVE  FlattenSeq(s) \in Seq(S)
<1>1. CASE Len(s) = 0
  <2>1. s = <<>>
    BY <1>1, EmptySeq
  <2>2. <<>> \in Seq(S)
    OBVIOUS
  <2> QED BY <2>1, <2>2, FlattenEmpty
<1>2. CASE Len(s) # 0
  <2>1. PICK n : n = Len(s)
    OBVIOUS
  <2>2. n \in Nat \ {0}
    BY <1>2, <2>1
  <2>3. PICK f : Flattens(f, s, n) /\ FlattenSeq(s) = f[n]
    BY <2>1, <2>2, FlattenIsLast
  <2>4. \A i \in 1..n : s[i] \in Seq(S)
    BY <2>1
  <2>5. f[n] \in Seq(S)
    BY <2>2, <2>3, <2>4, FlattensAgree, n \in 1..n
  <2> QED BY <2>3, <2>5
<1> QED BY <1>1, <1>2

LEMMA FlattenAppend ==
  ASSUME NEW S, NEW s \in Seq(Seq(S)), NEW t \in Seq(S)
  PROVE  FlattenSeq(Append(s, t)) = FlattenSeq(s) \o t
<1>1. PICK n, u : n = Len(s) /\ u = Append(s, t)
  OBVIOUS
<1>2. n \in Nat /\ Len(u) = n + 1 /\ n + 1 \in Nat \ {0}
      /\ \A i \in 1..n : u[i] = s[i] /\ s[i] \in Seq(S)
  BY <1>1
<1>3. u[n + 1] = t
  BY <1>1, <1>2
<1>4. PICK g : Flattens(g, u, n + 1) /\ FlattenSeq(u) = g[n + 1]
  BY <1>2, FlattenIsLast
<1>5. g[n + 1] = IF n + 1 = 1 THEN u[n + 1] ELSE g[n] \o u[n + 1]
  <2>1. n + 1 \in 1..(n + 1) /\ (n + 1) - 1 = n
    BY <1>2
  <2>2. \A i \in 1..(n + 1) : g[i] = IF i = 1 THEN u[i] ELSE g[i - 1] \o u[i]
    BY <1>4 DEF Flattens
  <2>3. g[n + 1] = IF n + 1 = 1 THEN u[n + 1] ELSE g[(n + 1) - 1] \o u[n + 1]
    BY <2>1, <2>2
  <2> QED BY <2>1, <2>3
<1>6. CASE n = 0
  <2>1. FlattenSeq(s) = <<>>
    BY <1>1, <1>6, EmptySeq, FlattenEmpty
  <2>2. <<>> \o t = t
    BY ConcatEmptySeq
  <2> QED BY <1>1, <1>3, <1>4, <1>5, <1>6, <2>1, <2>2
<1>7. CASE n # 0
  <2>1. n \in Nat \ {0} /\ n <= n + 1 /\ n \in 1..n
    BY <1>2, <1>7
  <2>2. PICK f : Flattens(f, s, n) /\ FlattenSeq(s) = f[n]
    BY <1>1, <2>1, FlattenIsLast
  <2>3. f[n] = g[n]
    <3>1. n + 1 \in Nat /\ \A i \in 1..n : s[i] \in Seq(S) /\ s[i] = u[i]
      BY <1>2
    <3>2. \A i \in 1..n : f[i] \in Seq(S) /\ f[i] = g[i]
      BY <1>4, <2>1, <2>2, <3>1, FlattensAgree
    <3> QED BY <2>1, <3>2
  <2> QED BY <1>1, <1>2, <1>3, <1>4, <1>5, <1>7, <2>2, <2>3
<1> QED BY <1>6, <1>7

LEMMA ExtractNothing ==
  ASSUME NEW b, NEW from
  PROVE  Extract(b, from, 0) = <<>>
  BY DEF Extract

LEMMA ExtractSplit ==
  ASSUME Limit \in Nat, NEW b \in Buffer, NEW from \in Nat, NEW m \in Nat, NEW k \in Nat,
         m <= k, b.packetStart + from + k <= Limit
  PROVE  Extract(b, from, k) = Extract(b, from, m) \o Extract(b, from + m, k - m)
<1>1. PICK n, s, t, u, v, base : /\ n = k - m
                                 /\ s = Extract(b, from, k) /\ t = Extract(b, from, m)
                                 /\ u = Extract(b, from + m, n) /\ v = t \o u
                                 /\ base = b.packetStart + from
  OBVIOUS
<1>2. b.packetStart \in Nat /\ n \in Nat /\ m + n = k /\ from + m \in Nat
      /\ b.packetStart + from + (m + n) <= Limit /\ b.packetStart + from + m <= Limit
      /\ b.packetStart + (from + m) + n <= Limit /\ base \in Nat
      /\ b.packetStart + (from + m) = base + m
  <2>1. PICK ps : ps = b.packetStart
    OBVIOUS
  <2>2. ps \in Nat /\ ps + from + k <= Limit
    BY <2>1 DEF Buffer
  <2>3. n = k - m /\ base = ps + from
    BY <1>1, <2>1
  <2>4. n \in Nat /\ m + n = k /\ from + m \in Nat /\ base \in Nat
    BY <2>2, <2>3
  <2>5. /\ ps + from + (m + n) <= Limit /\ ps + from + m <= Limit
        /\ ps + (from + m) + n <= Limit /\ ps + (from + m) = base + m
    BY <2>2, <2>3, <2>4
  <2> QED BY <2>1, <2>2, <2>4, <2>5
<1>3. /\ s \in Seq(Byte) /\ Len(s) = m + n
      /\ \A i \in 1..(m + n) : s[i] = b.bytes[base + i - 1]
  <2>1. /\ s \in Seq(Byte) /\ Len(s) = k
        /\ \A i \in 1..k : s[i] = b.bytes[b.packetStart + from + i - 1]
    <3>1. s = Extract(b, from, k) /\ (k > 0 => b.packetStart + from + k <= Limit)
      BY <1>1
    <3> QED BY <3>1, ExtractTakes
  <2> QED BY <1>1, <1>2, <2>1
<1>4. /\ t \in Seq(Byte) /\ Len(t) = m
      /\ \A i \in 1..m : t[i] = b.bytes[base + i - 1]
  <2>1. t = Extract(b, from, m) /\ (m > 0 => b.packetStart + from + m <= Limit)
    BY <1>1, <1>2
  <2>2. /\ t \in Seq(Byte) /\ Len(t) = m
        /\ \A i \in 1..m : t[i] = b.bytes[b.packetStart + from + i - 1]
    BY <2>1, ExtractTakes
  <2> QED BY <1>1, <2>2
<1>5. /\ u \in Seq(Byte) /\ Len(u) = n
      /\ \A i \in 1..n : u[i] = b.bytes[base + m + i - 1]
  <2>1. PICK y : y = from + m /\ u = Extract(b, y, n)
    BY <1>1
  <2>2. y \in Nat /\ n \in Nat /\ (n > 0 => b.packetStart + y + n <= Limit)
    BY <1>2, <2>1
  <2>3. /\ u \in Seq(Byte) /\ Len(u) = n
        /\ \A i \in 1..n : u[i] = b.bytes[b.packetStart + y + i - 1]
    BY <2>1, <2>2, ExtractTakes
  <2>4. \A i \in 1..n : b.packetStart + y + i - 1 = base + m + i - 1
    BY <1>2, <2>1
  <2> QED BY <2>3, <2>4
<1>6. /\ v \in Seq(Byte) /\ Len(v) = m + n
      /\ \A i \in 1..(m + n) : v[i] = IF i <= m THEN t[i] ELSE u[i - m]
  <2>1. /\ v \in Seq(Byte) /\ Len(v) = Len(t) + Len(u)
        /\ \A i \in 1..(Len(t) + Len(u)) : v[i] = IF i <= Len(t) THEN t[i] ELSE u[i - Len(t)]
    BY <1>1, <1>4, <1>5, ConcatProperties
  <2> QED BY <1>4, <1>5, <2>1
<1>7. ASSUME NEW i \in 1..(m + n)
      PROVE  s[i] = v[i]
  <2>1. CASE i <= m
    <3>1. i \in 1..m
      BY <2>1
    <3>2. t[i] = b.bytes[base + i - 1]
      BY <1>4, <3>1
    <3>3. v[i] = t[i]
      BY <1>6, <2>1
    <3> QED BY <1>3, <3>2, <3>3
  <2>2. CASE i > m
    <3>1. i - m \in 1..n /\ base + m + (i - m) - 1 = base + i - 1 /\ ~(i <= m)
      BY <1>2, <2>2
    <3>2. u[i - m] = b.bytes[base + m + (i - m) - 1]
      BY <1>5, <3>1
    <3>3. v[i] = u[i - m]
      BY <1>6, <3>1
    <3>4. s[i] = b.bytes[base + i - 1]
      BY <1>3
    <3> QED BY <3>1, <3>2, <3>3, <3>4
  <2> QED BY <2>1, <2>2
<1>8. s = v
  BY <1>3, <1>6, <1>7, SeqEqual
<1> QED BY <1>1, <1>2, <1>8

-----------------------------------------------------------------------------
(* What a packet has of frames.                                            *)

PayloadIn(b, parts) ==
  FlattenSeq([i \in DOMAIN parts |-> Extract(b, parts[i].start, parts[i].bytes)])

(* The parts lie in the buffer. *)
Fit(b, parts) ==
  \A i \in DOMAIN parts : b.packetStart + parts[i].start + parts[i].bytes <= Limit

LEMMA PayloadIs == Payload = PayloadIn(out, packed) /\ Payload' = PayloadIn(out', packed')
  BY DEF Payload, PayloadIn, PayloadOf

LEMMA PartIs ==
  ASSUME NEW parts \in Seq(Part)
  PROVE  \A i \in DOMAIN parts : /\ parts[i] \in Part
                                 /\ parts[i].start \in Nat /\ parts[i].bytes \in Nat
                                 /\ parts[i].offset \in Nat /\ parts[i].remaining \in Nat
<1>1. ASSUME NEW p \in Part
      PROVE  p.start \in Nat /\ p.bytes \in Nat /\ p.offset \in Nat /\ p.remaining \in Nat
  BY DEF Part
<1>2. \A i \in DOMAIN parts : parts[i] \in Part
  OBVIOUS
<1> QED BY <1>1, <1>2

LEMMA PayloadOfNone ==
  ASSUME NEW b
  PROVE  PayloadIn(b, <<>>) = <<>>
<1>1. [i \in DOMAIN <<>> |-> Extract(b, (<<>>)[i].start, (<<>>)[i].bytes)] = <<>>
  OBVIOUS
<1> QED BY <1>1, FlattenEmpty DEF PayloadIn

LEMMA ExtractsType ==
  ASSUME Limit \in Nat, NEW b \in Buffer, NEW parts \in Seq(Part), Fit(b, parts)
  PROVE  /\ [i \in DOMAIN parts |-> Extract(b, parts[i].start, parts[i].bytes)] \in Seq(Seq(Byte))
         /\ \A i \in DOMAIN parts :
              Extract(b, parts[i].start, parts[i].bytes) \in Seq(Byte)
<1>1. ASSUME NEW i \in DOMAIN parts
      PROVE  Extract(b, parts[i].start, parts[i].bytes) \in Seq(Byte)
  <2>1. parts[i] \in Part
    OBVIOUS
  <2>2. parts[i].start \in Nat /\ parts[i].bytes \in Nat
    BY <2>1 DEF Part
  <2>3. b.packetStart + parts[i].start + parts[i].bytes <= Limit
    BY DEF Fit
  <2> QED BY <2>2, <2>3, ExtractTakes
<1>2. DOMAIN parts = 1..Len(parts) /\ Len(parts) \in Nat
  OBVIOUS
<1> QED BY <1>1, <1>2

LEMMA PayloadType ==
  ASSUME Limit \in Nat, NEW b \in Buffer, NEW parts \in Seq(Part), Fit(b, parts)
  PROVE  PayloadIn(b, parts) \in Seq(Byte)
  BY ExtractsType, FlattenType DEF PayloadIn

LEMMA PayloadAppend ==
  ASSUME Limit \in Nat, NEW b \in Buffer, NEW parts \in Seq(Part), Fit(b, parts),
         NEW p \in Part, b.packetStart + p.start + p.bytes <= Limit
  PROVE  PayloadIn(b, Append(parts, p)) = PayloadIn(b, parts) \o Extract(b, p.start, p.bytes)
<1>1. PICK s, t, n :
        /\ s = [i \in DOMAIN parts |-> Extract(b, parts[i].start, parts[i].bytes)]
        /\ t = Extract(b, p.start, p.bytes) /\ n = Len(parts)
  OBVIOUS
<1>2. PICK u : u = [i \in DOMAIN Append(parts, p) |->
                     Extract(b, Append(parts, p)[i].start, Append(parts, p)[i].bytes)]
  OBVIOUS
<1>3. s \in Seq(Seq(Byte)) /\ t \in Seq(Byte)
  <2>1. p.start \in Nat /\ p.bytes \in Nat
    BY DEF Part
  <2> QED BY <1>1, <2>1, ExtractsType, ExtractTakes
<1>4. n \in Nat /\ DOMAIN s = 1..n /\ Len(s) = n /\ DOMAIN u = 1..(n + 1)
  BY <1>1, <1>2, <1>3
<1>5. u = Append(s, t)
  <2>1. \A i \in 1..(n + 1) : u[i] = IF i = n + 1 THEN t ELSE s[i]
    BY <1>1, <1>2, <1>4
  <2>2. PICK v : v = Append(s, t)
    OBVIOUS
  <2>3. /\ v \in Seq(Seq(Byte)) /\ Len(v) = n + 1
        /\ \A i \in 1..n : v[i] = s[i]
        /\ v[n + 1] = t
    BY <1>3, <1>4, <2>2, AppendProperties
  <2>4. \A i \in 1..(n + 1) : i # n + 1 => i \in 1..n
    BY <1>4
  <2>5. \A i \in 1..(n + 1) : v[i] = u[i]
    BY <2>1, <2>3, <2>4
  <2>6. u = [i \in 1..(n + 1) |-> u[i]]
    BY <1>2, <1>4
  <2>7. v = [i \in 1..(n + 1) |-> v[i]]
    BY <1>4, <2>3
  <2> QED BY <2>2, <2>5, <2>6, <2>7
<1>6. FlattenSeq(u) = FlattenSeq(s) \o t
  BY <1>3, <1>5, FlattenAppend
<1> QED BY <1>1, <1>2, <1>6 DEF PayloadIn

LEMMA PayloadSame ==
  ASSUME NEW b, NEW c, NEW parts,
         \A i \in DOMAIN parts : Extract(c, parts[i].start, parts[i].bytes)
                                   = Extract(b, parts[i].start, parts[i].bytes)
  PROVE  PayloadIn(c, parts) = PayloadIn(b, parts)
  BY DEF PayloadIn

(* What FragmentsTold says of the parts of a packet. *)
Told(b, parts, ow) ==
  \A i \in DOMAIN parts :
    /\ parts[i].bytes > 0 =>
         LET first == Extract(b, parts[i].start, parts[i].bytes)[1]
         IN  /\ parts[i].offset = first[2] - 1
             /\ parts[i].bytes + parts[i].remaining
                  = Cardinality({k \in DOMAIN ow : ow[k][1] = first[1]})
    /\ i > 1 /\ parts[i].remaining > 0 => format.fragmentsAfterStart
    /\ i > 1 /\ parts[1].offset > 0 => format.othersAfterLast

LEMMA FragmentsToldIs ==
  /\ FragmentsTold <=> (phase # "stopped" /\ ~stale => Told(out, packed, owed))
  /\ FragmentsTold' <=> (phase' # "stopped" /\ ~stale' => Told(out, packed, owed)')
  BY DEF FragmentsTold, Told, PayloadOf

LEMMA ToldSame ==
  ASSUME NEW b, NEW c, NEW parts, NEW ow, Told(b, parts, ow),
         \A i \in DOMAIN parts : Extract(c, parts[i].start, parts[i].bytes)
                                   = Extract(b, parts[i].start, parts[i].bytes)
  PROVE  Told(c, parts, ow)
  BY DEF Told

-----------------------------------------------------------------------------
(* afterGettingFrame1.                                                     *)

(* A frame, or what is left of one, has been put where the buffer's next     *)
(* byte goes.                                                                *)
Got(b, size) ==
  /\ b \in Buffer /\ size \in Nat /\ headerSizes' \in Nat
  /\ b.packetStart + MaxPacket <= Limit
  /\ b.packetStart + b.curOffset + size <= Limit
  /\ b.curOffset >= AllHeaders /\ b.curOffset < Preferred + format.specific
  /\ b.overflowSize = 0
  /\ \A i \in DOMAIN packed :
       /\ packed[i].start >= FrontHeaders
       /\ packed[i].start + packed[i].bytes <= b.curOffset - format.specific
  /\ Len(PayloadIn(b, packed)) = b.curOffset - FrontHeaders - headerSizes'
  /\ PayloadIn(b, packed) \o Extract(b, b.curOffset, size) = owed'
  /\ \A k \in DOMAIN owed' : owed'[k][1] <= frames'
  /\ \A k \in 1..size : Extract(b, b.curOffset, size)[k]
                          = <<frames', Extract(b, b.curOffset, size)[1][2] + k - 1>>
  /\ size > 0 => Cardinality({k \in DOMAIN owed' : owed'[k][1] = frames'}) = size
  /\ size > 0 /\ (~stale \/ fragmentationOffset = 0) =>
       Extract(b, b.curOffset, size)[1][2] = fragmentationOffset + 1
  /\ size = 0 /\ ~stale => fragmentationOffset = 0
  /\ ~stale => Told(b, packed, owed')
  /\ ~stale /\ packed # <<>> /\ packed[1].offset > 0 => format.othersAfterLast

(* The conjuncts of IInv that afterGettingFrame1 can disturb. *)
Goods ==
  /\ out \in Buffer
  /\ HaveOverflowData(out) => out.packetStart + out.overflowOffset + out.overflowSize <= Limit
  /\ packed \in Seq(Part)
  /\ fragmentationOffset \in Nat
  /\ endedFragmentation \in BOOLEAN
  /\ phase \in {"pack", "send"}
  /\ Placed /\ BytesKept /\ Divided /\ FragmentsTold

(* The parts in the packet stay when the bytes in front of the new frame's   *)
(* headers do.                                                               *)
LEMMA PartsStay ==
  ASSUME Limit \in Nat, NEW b \in Buffer, NEW c \in Buffer, NEW parts \in Seq(Part), NEW end \in Nat,
         b.packetStart + end <= Limit, c.packetStart = b.packetStart,
         \A i \in DOMAIN parts : parts[i].start + parts[i].bytes <= end,
         \A p \in 0..(Limit - 1) : p < b.packetStart + end => c.bytes[p] = b.bytes[p]
  PROVE  /\ \A i \in DOMAIN parts : Extract(c, parts[i].start, parts[i].bytes)
                                      = Extract(b, parts[i].start, parts[i].bytes)
         /\ Fit(b, parts) /\ Fit(c, parts)
<1>1. ASSUME NEW i \in DOMAIN parts
      PROVE  /\ Extract(c, parts[i].start, parts[i].bytes) = Extract(b, parts[i].start, parts[i].bytes)
             /\ b.packetStart + parts[i].start + parts[i].bytes <= Limit
  <2>1. PICK start, n : start = parts[i].start /\ n = parts[i].bytes
    OBVIOUS
  <2>2. start \in Nat /\ n \in Nat /\ start + n <= end /\ b.packetStart \in Nat
    <3>1. parts[i] \in Part
      OBVIOUS
    <3> QED BY <2>1, <3>1 DEF Part, Buffer
  <2>3. \A j \in 1..n : /\ b.packetStart + start + j - 1 \in 0..(Limit - 1)
                        /\ b.packetStart + start + j - 1 < b.packetStart + end
    <3>1. PICK ps : ps = b.packetStart
      OBVIOUS
    <3>2. ps \in Nat /\ ps + end <= Limit
      BY <2>2, <3>1
    <3>3. \A j \in 1..n : ps + start + j - 1 \in 0..(Limit - 1) /\ ps + start + j - 1 < ps + end
      BY <2>2, <3>2
    <3> QED BY <3>1, <3>3
  <2>4. \A j \in 1..n : c.bytes[c.packetStart + start + j - 1] = b.bytes[b.packetStart + start + j - 1]
    BY <2>3
  <2>5. Extract(c, start, n) = Extract(b, start, n)
    BY <2>4 DEF Extract
  <2>6. b.packetStart + start + n <= Limit
    BY <2>2
  <2> QED BY <2>1, <2>5, <2>6
<1> QED BY <1>1 DEF Fit

(* The numbers that the above speaks of. *)
LEMMA GotPlaces ==
  ASSUME format \in Formats, NEW b, NEW size, Got(b, size)
  PROVE  /\ b \in Buffer /\ b.packetStart \in Nat /\ b.curOffset \in Nat /\ size \in Nat
         /\ b.packetStart + MaxPacket <= Limit /\ b.packetStart + b.curOffset + size <= Limit
         /\ b.curOffset >= AllHeaders /\ b.curOffset < Preferred + format.specific
         /\ b.curOffset - format.specific \in Nat /\ b.overflowSize = 0
         /\ FrontHeaders \in Nat /\ AllHeaders = FrontHeaders + format.specific
         /\ headerSizes' \in Nat
<1>1. /\ b \in Buffer /\ size \in Nat /\ b.overflowSize = 0 /\ headerSizes' \in Nat
      /\ b.packetStart + MaxPacket <= Limit /\ b.packetStart + b.curOffset + size <= Limit
      /\ b.curOffset >= AllHeaders /\ b.curOffset < Preferred + format.specific
  BY DEF Got
<1>2. b.packetStart \in Nat /\ b.curOffset \in Nat
  BY <1>1 DEF Buffer
<1>3. RtpHeaderSize \in Nat /\ format.special \in Nat /\ format.specific \in Nat
  BY Sizes
<1>4. FrontHeaders \in Nat /\ AllHeaders = FrontHeaders + format.specific
  BY <1>3 DEF FrontHeaders, AllHeaders
<1>5. b.curOffset - format.specific \in Nat
  BY <1>1, <1>2, <1>3, <1>4
<1> QED BY <1>1, <1>2, <1>4, <1>5

LEMMA KeepKeeps ==
  ASSUME format \in Formats, packed \in Seq(Part), fragmentationOffset \in Nat, stale \in BOOLEAN,
         NEW b, NEW size, Got(b, size), size > 0, KeepForNextPacket(b, size),
         UNCHANGED <<format, noFramesLeft, stale>>, ~noFramesLeft
  PROVE  Goods'
<1>1. /\ RtpHeaderSize \in Nat /\ format.special \in Nat /\ format.specific \in Nat
      /\ Preferred \in Nat /\ MaxPacket \in Nat /\ Limit \in Nat
      /\ Preferred + format.specific <= MaxPacket
  BY Sizes
<1>2. b \in Buffer /\ b.packetStart \in Nat /\ b.curOffset \in Nat /\ size \in Nat
  BY DEF Got, Buffer
<1>3. /\ out' \in Buffer /\ out'.bytes = b.bytes /\ out'.packetStart = b.packetStart
      /\ out'.curOffset = b.curOffset /\ out'.overflowOffset = b.curOffset
      /\ out'.overflowSize = size
  BY <1>2 DEF KeepForNextPacket, SetOverflowData, Buffer
<1>4. /\ packed' = packed /\ fragmentationOffset' = fragmentationOffset
      /\ endedFragmentation' = FALSE /\ phase' = "send"
  BY DEF KeepForNextPacket
<1>5. \A from, n : Extract(out', from, n) = Extract(b, from, n)
  BY <1>3 DEF Extract
<1>6. Payload' = PayloadIn(b, packed)
  <2>1. Payload' = PayloadIn(out', packed')
    BY PayloadIs
  <2> QED BY <1>4, <1>5, <2>1, PayloadSame
<1>7. Overflow' = Extract(b, b.curOffset, size)
  BY <1>3, <1>5 DEF Overflow
<1>8. BytesKept'
  BY <1>6, <1>7 DEF BytesKept, Got, Overflow
<1>9. Placed'
  <2>1. PartsBefore(out.curOffset)'
    <3>1. \A i \in DOMAIN packed : packed[i].start \in Nat /\ packed[i].bytes \in Nat
      BY PartIs
    <3>2. ASSUME NEW i \in DOMAIN packed
          PROVE  packed[i].start >= FrontHeaders /\ packed[i].start + packed[i].bytes <= b.curOffset
      <4>1. packed[i].start >= FrontHeaders
            /\ packed[i].start + packed[i].bytes <= b.curOffset - format.specific
        BY DEF Got
      <4> QED BY <1>1, <1>2, <3>1, <4>1
    <3>3. Len(PayloadIn(b, packed)) = b.curOffset - FrontHeaders - headerSizes'
      BY DEF Got
    <3>4. FrontHeaders' = FrontHeaders
      BY DEF FrontHeaders
    <3> QED BY <1>3, <1>4, <1>6, <3>2, <3>3, <3>4 DEF PartsBefore
  <2>2. HaveOverflowData(out') /\ out'.overflowOffset >= out'.curOffset
    BY <1>2, <1>3 DEF HaveOverflowData
  <2>3. out'.curOffset >= AllHeaders' /\ out'.curOffset <= MaxPacket /\ out'.packetStart + MaxPacket <= Limit
    <3>1. /\ b.curOffset >= AllHeaders /\ b.curOffset < Preferred + format.specific
          /\ b.packetStart + MaxPacket <= Limit
      BY GotPlaces
    <3>2. b.curOffset <= MaxPacket
      BY <1>1, <1>2, <3>1
    <3>3. AllHeaders' = AllHeaders
      BY DEF AllHeaders
    <3> QED BY <1>3, <3>1, <3>2, <3>3
  <2> QED BY <1>4, <2>1, <2>2, <2>3 DEF Placed
<1>10. Divided'
  <2>1. /\ \A k \in 1..out'.overflowSize : Overflow'[k] = <<frames', Overflow'[1][2] + k - 1>>
        /\ ~stale \/ fragmentationOffset = 0 => Overflow'[1][2] = fragmentationOffset + 1
    BY <1>3, <1>7 DEF Got
  <2> QED BY <1>2, <1>3, <1>4, <2>1 DEF Divided, Got, HaveOverflowData
<1>11. FragmentsTold'
  <2>1. ~stale => Told(b, packed, owed')
    BY DEF Got
  <2>2. ~stale => Told(out', packed, owed')
    BY <1>5, <2>1, ToldSame
  <2>3. ~stale => Told(out, packed, owed)'
    BY <1>4, <2>2 DEF Told
  <2> QED BY <2>3, FragmentsToldIs
<1>12. out'.packetStart + out'.overflowOffset + out'.overflowSize <= Limit
  BY <1>3 DEF Got
<1> QED BY <1>3, <1>4, <1>8, <1>9, <1>10, <1>11, <1>12 DEF Goods

(* The buffer after Use: the frame-specific headers are written in front of  *)
(* the frame, the offset is behind what is used of it, and the rest is the   *)
(* overflow data.                                                            *)
LEMMA UseWrites ==
  ASSUME format \in Formats, NEW b, NEW size, Got(b, size), NEW used \in 0..size, NEW again,
         Use(b, size, used, again)
  PROVE  /\ out' \in Buffer /\ out'.packetStart = b.packetStart
         /\ out'.curOffset = b.curOffset + used
         /\ used < size => out'.overflowOffset = b.curOffset + used /\ out'.overflowSize = size - used
         /\ used = size => out'.overflowSize = 0
         /\ \A p \in 0..(Limit - 1) :
              \/ p < b.packetStart + b.curOffset - format.specific
              \/ p >= b.packetStart + b.curOffset
              => out'.bytes[p] = b.bytes[p]
<1>1. /\ RtpHeaderSize \in Nat /\ format.special \in Nat /\ format.specific \in Nat /\ Limit \in Nat
  BY Sizes
<1>2. /\ b \in Buffer /\ b.packetStart \in Nat /\ b.curOffset \in Nat /\ size \in Nat /\ used \in Nat
      /\ b.curOffset - format.specific \in Nat /\ b.packetStart + b.curOffset <= Limit
  BY <1>1, GotPlaces
<1>3. PICK b1, b2, hs, to :
        /\ b1 = (IF used < size THEN SetOverflowData(b, b.curOffset + used, size - used) ELSE b)
        /\ hs = [i \in 1..format.specific |-> Header] /\ to = b.curOffset - format.specific
        /\ b2 = Insert(b1, hs, to)
  OBVIOUS
<1>4. out' = Increment(b2, used)
  BY <1>3 DEF Use
<1>5. /\ b1 \in Buffer /\ b1.bytes = b.bytes /\ b1.packetStart = b.packetStart
      /\ b1.curOffset = b.curOffset
      /\ used < size => b1.overflowOffset = b.curOffset + used /\ b1.overflowSize = size - used
      /\ used = size => b1.overflowSize = 0
  <2>1. CASE used < size
    <3>1. PICK o, n : o = b.curOffset + used /\ n = size - used
      OBVIOUS
    <3>2. o \in Nat /\ n \in Nat
      BY <1>2, <2>1, <3>1
    <3>3. b1 = SetOverflowData(b, o, n)
      BY <1>3, <2>1, <3>1
    <3>4. /\ b1 \in Buffer /\ b1.bytes = b.bytes /\ b1.packetStart = b.packetStart
          /\ b1.curOffset = b.curOffset /\ b1.overflowOffset = o /\ b1.overflowSize = n
      BY <1>2, <3>2, <3>3 DEF SetOverflowData, Buffer
    <3> QED BY <1>2, <2>1, <3>1, <3>4
  <2>2. CASE used = size
    BY <1>2, <1>3, <2>2 DEF Got
  <2> QED BY <1>2, <2>1, <2>2
<1>6. hs \in Seq(Byte) /\ Len(hs) = format.specific
  BY <1>1, <1>3, HeaderIsByte
<1>7. b1.packetStart + to + Len(hs) <= Limit
  BY <1>1, <1>2, <1>3, <1>5, <1>6
<1>8. /\ b2 \in Buffer
      /\ b2.packetStart = b1.packetStart /\ b2.curOffset = b1.curOffset
      /\ b2.overflowOffset = b1.overflowOffset /\ b2.overflowSize = b1.overflowSize
      /\ \A p \in 0..(Limit - 1) :
              b2.bytes[p] = IF b1.packetStart + to <= p /\ p < b1.packetStart + to + Len(hs)
                            THEN hs[p - (b1.packetStart + to) + 1] ELSE b1.bytes[p]
  <2>1. /\ to \in Nat /\ b1 \in Buffer /\ hs \in Seq(Byte) /\ Limit \in Nat
        /\ b1.packetStart + to + Len(hs) <= Limit /\ b2 = Insert(b1, hs, to)
    BY <1>1, <1>2, <1>3, <1>5, <1>6, <1>7
  <2> QED BY <2>1, InsertWrites
<1>9. /\ out' \in Buffer /\ out'.bytes = b2.bytes /\ out'.packetStart = b2.packetStart
      /\ out'.curOffset = b2.curOffset + used
      /\ out'.overflowOffset = b2.overflowOffset /\ out'.overflowSize = b2.overflowSize
  <2>1. PICK cur : cur = b2.curOffset + used
    OBVIOUS
  <2>2. cur \in Nat
    BY <1>2, <1>5, <1>8, <2>1
  <2>3. out' = [b2 EXCEPT !.curOffset = cur]
    BY <1>4, <2>1 DEF Increment
  <2>4. b2 \in Buffer
    BY <1>8
  <2> QED BY <2>1, <2>2, <2>3, <2>4 DEF Buffer
<1>10. ASSUME NEW p \in 0..(Limit - 1),
              p < b.packetStart + b.curOffset - format.specific \/ p >= b.packetStart + b.curOffset
       PROVE  out'.bytes[p] = b.bytes[p]
  <2>1. ~(b1.packetStart + to <= p /\ p < b1.packetStart + to + Len(hs))
    BY <1>1, <1>2, <1>3, <1>5, <1>6, <1>10
  <2> QED BY <1>5, <1>8, <1>9, <2>1
<1> QED BY <1>5, <1>8, <1>9, <1>10

(* What the used part and the rest of the frame are, in the new buffer. *)
Divides(b, frame, part, size, used) ==
  /\ \A i \in DOMAIN packed : Extract(out', packed[i].start, packed[i].bytes)
                                = Extract(b, packed[i].start, packed[i].bytes)
  /\ Fit(b, packed) /\ Fit(out', packed)
  /\ \A k \in 1..used : part[k] = frame[k]
  /\ Len(part) = used /\ part \in Seq(Byte) /\ Overflow' \in Seq(Byte)
  /\ \A k \in 1..(size - used) : Overflow'[k] = frame[used + k]
  /\ frame = part \o Overflow'
LEMMA UsedAndRest ==
  ASSUME format \in Formats, NEW b, NEW size, Got(b, size), NEW used \in 0..size, NEW again,
         Use(b, size, used, again), packed \in Seq(Part),
         NEW frame, frame = Extract(b, b.curOffset, size),
         NEW part, part = Extract(out', b.curOffset, used)
  PROVE  Divides(b, frame, part, size, used)
<1>1. /\ RtpHeaderSize \in Nat /\ format.special \in Nat /\ format.specific \in Nat /\ Limit \in Nat
  BY Sizes
<1>2. /\ b \in Buffer /\ b.packetStart \in Nat /\ b.curOffset \in Nat /\ size \in Nat /\ used \in Nat
      /\ b.curOffset - format.specific \in Nat /\ b.packetStart + b.curOffset + size <= Limit
      /\ size - used \in Nat /\ Limit \in Nat
  BY <1>1, GotPlaces
<1>3. /\ out' \in Buffer /\ out'.packetStart = b.packetStart
      /\ out'.curOffset = b.curOffset + used
      /\ used < size => out'.overflowOffset = b.curOffset + used /\ out'.overflowSize = size - used
      /\ used = size => out'.overflowSize = 0
      /\ \A p \in 0..(Limit - 1) :
              \/ p < b.packetStart + b.curOffset - format.specific
              \/ p >= b.packetStart + b.curOffset
              => out'.bytes[p] = b.bytes[p]
  BY UseWrites
<1>4. /\ \A i \in DOMAIN packed : Extract(out', packed[i].start, packed[i].bytes)
                                       = Extract(b, packed[i].start, packed[i].bytes)
      /\ Fit(b, packed) /\ Fit(out', packed)
  <2>1. PICK end, c : end = b.curOffset - format.specific /\ c = out'
    OBVIOUS
  <2>2. end \in Nat /\ b.packetStart + end <= Limit
    BY <1>1, <1>2, <2>1
  <2>3. \A i \in DOMAIN packed : packed[i].start + packed[i].bytes <= end
    BY <2>1 DEF Got
  <2>4. \A p \in 0..(Limit - 1) : p < b.packetStart + end => c.bytes[p] = b.bytes[p]
    BY <1>1, <1>2, <1>3, <2>1
  <2> QED BY <1>1, <1>2, <1>3, <2>1, <2>2, <2>3, <2>4, PartsStay
<1>5. \A from, n \in Nat : from >= b.curOffset /\ b.packetStart + from + n <= Limit =>
        Extract(out', from, n) = Extract(b, from, n)
  <2>1. TAKE from, n \in Nat
  <2>2. HAVE from >= b.curOffset /\ b.packetStart + from + n <= Limit
  <2>3. \A i \in 1..n : /\ b.packetStart + from + i - 1 \in 0..(Limit - 1)
                        /\ b.packetStart + from + i - 1 >= b.packetStart + b.curOffset
    <3>1. PICK ps, cur : ps = b.packetStart /\ cur = b.curOffset
      OBVIOUS
    <3>2. ps \in Nat /\ cur \in Nat /\ from >= cur /\ ps + from + n <= Limit /\ Limit \in Nat
      BY <1>2, <2>2, <3>1
    <3>3. \A i \in 1..n : ps + from + i - 1 \in 0..(Limit - 1) /\ ps + from + i - 1 >= ps + cur
      BY <3>2
    <3> QED BY <3>1, <3>3
  <2>4. \A i \in 1..n : out'.bytes[out'.packetStart + from + i - 1] = b.bytes[b.packetStart + from + i - 1]
    BY <1>3, <2>3
  <2> QED BY <1>3, <2>4 DEF Extract
<1>6. PICK x, y, z : /\ x = Extract(b, b.curOffset, size) /\ y = Extract(b, b.curOffset, used)
                     /\ z = Extract(b, b.curOffset + used, size - used)
  OBVIOUS
<1>7. x = y \o z
  <2>1. used <= size
    BY <1>2
  <2>2. Extract(b, b.curOffset, size)
          = Extract(b, b.curOffset, used) \o Extract(b, b.curOffset + used, size - used)
    <3>1. PICK cur : cur = b.curOffset
      OBVIOUS
    <3>2. cur \in Nat /\ used \in Nat /\ size \in Nat /\ b \in Buffer /\ Limit \in Nat
          /\ b.packetStart + cur + size <= Limit
      BY <1>2, <3>1
    <3>3. Extract(b, cur, size) = Extract(b, cur, used) \o Extract(b, cur + used, size - used)
      BY <2>1, <3>2, ExtractSplit
    <3> QED BY <3>1, <3>3
  <2> QED BY <1>6, <2>2
<1>8. Extract(out', b.curOffset, used) = y
  <2>1. b.packetStart + b.curOffset + used <= Limit /\ b.curOffset >= b.curOffset
    BY <1>2
  <2> QED BY <1>2, <1>5, <1>6, <2>1
<1>9. Overflow' = z
  <2>1. CASE used < size
    <3>1. /\ b.curOffset + used \in Nat /\ b.curOffset + used >= b.curOffset
          /\ b.packetStart + (b.curOffset + used) + (size - used) <= Limit
      BY <1>2
    <3> QED BY <1>2, <1>3, <1>5, <1>6, <2>1, <3>1 DEF Overflow
  <2>2. CASE used = size
    BY <1>2, <1>3, <1>6, <2>2, ExtractNothing DEF Overflow
  <2> QED BY <1>2, <2>1, <2>2
<1>10. /\ x \in Seq(Byte) /\ y \in Seq(Byte) /\ z \in Seq(Byte)
       /\ Len(y) = used /\ Len(z) = size - used /\ Len(x) = size
  <2>1. /\ b.packetStart + b.curOffset + used <= Limit /\ b.curOffset + used \in Nat
        /\ b.packetStart + (b.curOffset + used) + (size - used) <= Limit
    BY <1>2
  <2> QED BY <1>1, <1>2, <1>6, <2>1, ExtractTakes
<1>11. \A i \in 1..size : x[i] = IF i <= used THEN y[i] ELSE z[i - used]
  <2>1. Len(y) + Len(z) = size
    BY <1>2, <1>10
  <2> QED BY <1>7, <1>10, <2>1, ConcatProperties
<1>12. \A k \in 1..used : y[k] = x[k]
  BY <1>2, <1>11
<1>13. ASSUME NEW k \in 1..(size - used) PROVE z[k] = x[used + k]
  <2>1. used + k \in 1..size /\ ~(used + k <= used) /\ (used + k) - used = k
    BY <1>2
  <2> QED BY <1>11, <2>1
<1>14. frame = x /\ part = y
  BY <1>6, <1>8
<1> QED BY <1>4, <1>7, <1>9, <1>10, <1>12, <1>13, <1>14 DEF Divides

(* How much of the frame is used: all of it, which fits, or as much as fills *)
(* the packet.                                                               *)
Amount(b, size, used) ==
  \/ used = size /\ b.curOffset + size <= MaxPacket
  \/ /\ 0 < used /\ used < size /\ b.curOffset + used = MaxPacket
     /\ packed = <<>> \/ format.fragmentsAfterStart

LEMMA UseKeeps ==
  ASSUME format \in Formats, packed \in Seq(Part), fragmentationOffset \in Nat, stale \in BOOLEAN,
         NEW b, NEW size, Got(b, size), NEW used \in 0..size, Amount(b, size, used),
         NEW again, Use(b, size, used, again),
         UNCHANGED <<format, noFramesLeft, stale>>, ~noFramesLeft
  PROVE  Goods'
<1>1. /\ RtpHeaderSize \in Nat /\ format.special \in Nat /\ format.specific \in Nat /\ Limit \in Nat
      /\ Preferred \in Nat /\ MaxPacket \in Nat /\ Preferred + format.specific <= MaxPacket
      /\ format.othersAfterLast \in BOOLEAN
  BY Sizes
<1>2. /\ b \in Buffer /\ b.packetStart \in Nat /\ b.curOffset \in Nat /\ size \in Nat /\ used \in Nat
      /\ b.curOffset - format.specific \in Nat /\ b.packetStart + b.curOffset + size <= Limit
      /\ size - used \in Nat /\ b.overflowSize = 0
      /\ b.packetStart + MaxPacket <= Limit /\ b.curOffset >= AllHeaders
      /\ b.curOffset < Preferred + format.specific
      /\ FrontHeaders \in Nat /\ AllHeaders = FrontHeaders + format.specific
      /\ headerSizes' \in Nat
  <2>1. size \in Nat
    BY GotPlaces
  <2>2. used \in Nat /\ size - used \in Nat
    BY <2>1
  <2> QED BY <2>2, GotPlaces
<1>3. /\ out' \in Buffer /\ out'.packetStart = b.packetStart
      /\ out'.curOffset = b.curOffset + used
      /\ used < size => out'.overflowOffset = b.curOffset + used /\ out'.overflowSize = size - used
      /\ used = size => out'.overflowSize = 0
  BY UseWrites
<1>4. PICK x, y, p :
        /\ x = Extract(b, b.curOffset, size) /\ y = Extract(out', b.curOffset, used)
        /\ p = [start |-> b.curOffset, bytes |-> used,
                offset |-> fragmentationOffset, remaining |-> size - used]
  OBVIOUS
<1>5. /\ \A i \in DOMAIN packed : Extract(out', packed[i].start, packed[i].bytes)
                                       = Extract(b, packed[i].start, packed[i].bytes)
      /\ Fit(b, packed) /\ Fit(out', packed)
      /\ \A k \in 1..used : y[k] = x[k]
      /\ Len(y) = used /\ y \in Seq(Byte) /\ Overflow' \in Seq(Byte)
      /\ \A k \in 1..(size - used) : Overflow'[k] = x[used + k]
      /\ x = y \o Overflow'
  <2>1. Divides(b, x, y, size, used)
    BY <1>4, UsedAndRest
  <2> QED BY <2>1 DEF Divides
<1>6. /\ p \in Part /\ p.start = b.curOffset /\ p.bytes = used /\ p.offset = fragmentationOffset
      /\ p.remaining = size - used
  BY <1>2, <1>4 DEF Part
<1>7. /\ packed' = Append(packed, p)
      /\ endedFragmentation' = (size > 0 /\ ~(used < size) /\ fragmentationOffset > 0)
      /\ fragmentationOffset' = OffsetAfter(size, used)
      /\ phase' \in {"pack", "send"}
      /\ phase' = "pack" => /\ out'.curOffset < Preferred
                            /\ endedFragmentation' => format.othersAfterLast
  <2>1. out' = Increment(Insert(IF used < size THEN SetOverflowData(b, b.curOffset + used, size - used) ELSE b,
                                [i \in 1..format.specific |-> Header], b.curOffset - format.specific), used)
    BY DEF Use
  <2>2. out'.curOffset \in Nat
    BY <1>2, <1>3
  <2>3. phase' = "pack" => ~IsPreferredSize(out')
    BY <2>1 DEF Use
  <2>4. phase' = "pack" => out'.curOffset < Preferred
    BY <1>1, <2>2, <2>3 DEF IsPreferredSize
  <2> QED BY <1>4, <2>4 DEF Use
<1>8. fragmentationOffset' \in Nat
  BY <1>2, <1>7 DEF OffsetAfter
<1>9. /\ packed' \in Seq(Part) /\ Len(packed') = Len(packed) + 1 /\ DOMAIN packed' = 1..(Len(packed) + 1)
      /\ packed' # <<>>
      /\ \A i \in 1..Len(packed) : packed'[i] = packed[i]
      /\ packed'[Len(packed) + 1] = p /\ Len(packed) \in Nat /\ DOMAIN packed = 1..Len(packed)
  BY <1>6, <1>7
<1>10. /\ Payload' = PayloadIn(b, packed) \o y
       /\ PayloadIn(b, packed) \in Seq(Byte)
  <2>1. PayloadIn(out', packed') = PayloadIn(out', packed) \o Extract(out', p.start, p.bytes)
    <3>1. out'.packetStart + p.start + p.bytes <= Limit
      <4>1. b.packetStart + b.curOffset + used <= Limit
        <5>1. PICK ps, cur : ps = b.packetStart /\ cur = b.curOffset
          OBVIOUS
        <5>2. ps \in Nat /\ cur \in Nat /\ Limit \in Nat /\ ps + cur + size <= Limit /\ size \in Nat
          BY <1>1, <1>2, <5>1
        <5>3. ps + cur + used <= Limit
          BY <5>2
        <5> QED BY <5>1, <5>3
      <4> QED BY <1>3, <1>6, <4>1
    <3> QED BY <1>1, <1>3, <1>5, <1>6, <1>7, <3>1, PayloadAppend
  <2>2. PayloadIn(out', packed) = PayloadIn(b, packed)
    BY <1>5, PayloadSame
  <2>3. Extract(out', p.start, p.bytes) = y
    BY <1>4, <1>6
  <2>4. Payload' = PayloadIn(out', packed')
    BY PayloadIs
  <2>5. PayloadIn(b, packed) \in Seq(Byte)
    BY <1>1, <1>2, <1>5, PayloadType
  <2> QED BY <2>1, <2>2, <2>3, <2>4, <2>5
<1>11. BytesKept'
  <2>1. (PayloadIn(b, packed) \o y) \o Overflow' = PayloadIn(b, packed) \o (y \o Overflow')
    <3>1. PICK z, w : z = PayloadIn(b, packed) /\ w = Overflow'
      OBVIOUS
    <3>2. z \in Seq(Byte) /\ y \in Seq(Byte) /\ w \in Seq(Byte)
      BY <1>5, <1>10, <3>1
    <3>3. (z \o y) \o w = z \o (y \o w)
      BY <3>2, ConcatAssociative
    <3> QED BY <3>1, <3>3
  <2>2. Payload' \o Overflow' = owed'
    BY <1>4, <1>5, <1>10, <2>1 DEF Got
  <2> QED BY <2>2 DEF BytesKept, Overflow
<1>12. /\ used < size => out'.curOffset = MaxPacket /\ phase' = "send"
       /\ out'.curOffset <= MaxPacket /\ (~(used < size) => used = size)
       /\ FrontHeaders' = FrontHeaders /\ AllHeaders' = AllHeaders
  <2>1. ~(used < size) => used = size
    BY <1>2
  <2>2. /\ used = size => b.curOffset + used <= MaxPacket
        /\ used < size => b.curOffset + used = MaxPacket
    BY <1>2 DEF Amount
  <2>3. used < size => phase' = "send"
    <3>1. used < size => out'.curOffset = MaxPacket
      BY <1>3, <2>2
    <3>2. ~(MaxPacket < Preferred)
      BY <1>1
    <3> QED BY <1>7, <3>1, <3>2
  <2>4. FrontHeaders' = FrontHeaders /\ AllHeaders' = AllHeaders
    BY DEF FrontHeaders, AllHeaders
  <2>5. /\ used < size => out'.curOffset = MaxPacket
        /\ out'.curOffset <= MaxPacket
    <3>1. used < size \/ used = size
      BY <2>1
    <3>2. out'.curOffset = MaxPacket \/ out'.curOffset <= MaxPacket
      BY <1>3, <2>2, <3>1
    <3>3. MaxPacket <= MaxPacket
      BY <1>1
    <3> QED BY <1>3, <2>2, <3>2, <3>3
  <2> QED BY <2>1, <2>3, <2>4, <2>5
<1>13. Placed'
  <2>1. PartsBefore(out.curOffset)'
    <3>1. ASSUME NEW i \in DOMAIN packed'
          PROVE  /\ packed'[i].start >= FrontHeaders'
                 /\ packed'[i].start + packed'[i].bytes <= out'.curOffset
      <4>1. CASE i = Len(packed) + 1
        <5>1. packed'[i].start = b.curOffset /\ packed'[i].bytes = used
          BY <1>6, <1>9, <4>1
        <5>2. b.curOffset >= FrontHeaders
          <6>1. PICK cur, F, s : cur = b.curOffset /\ F = FrontHeaders /\ s = format.specific
            OBVIOUS
          <6>2. cur \in Nat /\ F \in Nat /\ s \in Nat /\ cur >= F + s
            BY <1>1, <1>2, <6>1
          <6>3. cur >= F
            BY <6>2
          <6> QED BY <6>1, <6>3
        <5>3. b.curOffset + used <= b.curOffset + used
          BY <1>2
        <5> QED BY <1>3, <1>12, <5>1, <5>2, <5>3
      <4>2. CASE i # Len(packed) + 1
        <5>1. i \in DOMAIN packed /\ packed'[i] = packed[i]
          BY <1>9, <4>2
        <5>2. packed[i].start \in Nat /\ packed[i].bytes \in Nat
          BY <5>1, PartIs
        <5>3. packed[i].start >= FrontHeaders
              /\ packed[i].start + packed[i].bytes <= b.curOffset - format.specific
          BY <5>1 DEF Got
        <5>4. packed[i].start + packed[i].bytes <= b.curOffset + used
          <6>1. format.specific \in Nat /\ b.curOffset \in Nat /\ used \in Nat
            BY <1>1, <1>2
          <6> QED BY <5>2, <5>3, <6>1
        <5> QED BY <1>3, <1>12, <5>1, <5>3, <5>4
      <4> QED BY <4>1, <4>2
    <3>2. Len(Payload') = out'.curOffset - FrontHeaders' - headerSizes'
      <4>1. Len(Payload') = Len(PayloadIn(b, packed)) + used
        BY <1>5, <1>10, ConcatProperties
      <4>2. Len(PayloadIn(b, packed)) = b.curOffset - FrontHeaders - headerSizes'
        BY DEF Got
      <4>3. Len(PayloadIn(b, packed)) \in Nat /\ FrontHeaders' = FrontHeaders /\ FrontHeaders \in Nat
        BY <1>1, <1>10 DEF FrontHeaders
      <4>4. b.curOffset - FrontHeaders - headerSizes' + used = (b.curOffset + used) - FrontHeaders - headerSizes'
        BY <1>2, <4>3 DEF Got
      <4> QED BY <1>3, <4>1, <4>2, <4>3, <4>4
    <3> QED BY <3>1, <3>2 DEF PartsBefore
  <2>2. out'.packetStart + MaxPacket <= Limit
    BY <1>3 DEF Got
  <2>3. out'.curOffset >= AllHeaders' /\ out'.curOffset >= FrontHeaders'
    <3>1. /\ b.curOffset \in Nat /\ used \in Nat /\ FrontHeaders \in Nat /\ format.specific \in Nat
          /\ AllHeaders = FrontHeaders + format.specific /\ b.curOffset >= AllHeaders
      BY <1>1, <1>2
    <3>2. b.curOffset + used >= AllHeaders /\ b.curOffset + used >= FrontHeaders
      BY <3>1
    <3> QED BY <1>3, <1>12, <3>2
  <2>4. HaveOverflowData(out') => phase' = "send" /\ out'.overflowOffset >= out'.curOffset
    BY <1>2, <1>3, <1>12 DEF HaveOverflowData
  <2> QED BY <1>7, <1>9, <1>12, <2>1, <2>2, <2>3, <2>4 DEF Placed
<1>14. size > 0 => /\ \A k \in 1..size : x[k] = <<frames', x[1][2] + k - 1>>
                   /\ ~stale \/ fragmentationOffset = 0 => x[1][2] = fragmentationOffset + 1
                   /\ x[1][2] \in Nat
  <2>1. /\ \A k \in 1..size : x[k] = <<frames', x[1][2] + k - 1>>
        /\ size > 0 /\ (~stale \/ fragmentationOffset = 0) => x[1][2] = fragmentationOffset + 1
    BY <1>4 DEF Got
  <2>2. ASSUME size > 0 PROVE x[1][2] \in Nat
    <3>1. x[1] \in Byte
      <4>1. x \in Seq(Byte) /\ Len(x) = size
        <5>1. PICK cur : cur = b.curOffset
          OBVIOUS
        <5>2. /\ x = Extract(b, cur, size) /\ cur \in Nat /\ b \in Buffer /\ size \in Nat
              /\ b.packetStart + cur + size <= Limit /\ Limit \in Nat
          BY <1>1, <1>2, <1>4, <5>1
        <5> QED BY <5>2, ExtractTakes
      <4> QED BY <1>2, <2>2, <4>1
    <3>2. x[1] \in Nat \X Nat
      BY <1>1, <3>1 DEF Byte, Header
    <3> QED BY <3>2
  <2> QED BY <2>1, <2>2
<1>15. Divided'
  <2>1. \A k \in DOMAIN owed' : owed'[k][1] <= frames'
    BY DEF Got
  <2>2. ASSUME used < size
        PROVE  /\ \A k \in 1..out'.overflowSize : Overflow'[k] = <<frames', Overflow'[1][2] + k - 1>>
               /\ ~stale \/ fragmentationOffset' = 0 => Overflow'[1][2] = fragmentationOffset' + 1
    <3>1. fragmentationOffset' = fragmentationOffset + used /\ used > 0
      BY <1>2, <1>7, <2>2 DEF OffsetAfter, Amount
    <3>2. \A k \in 1..(size - used) : Overflow'[k] = <<frames', x[1][2] + (used + k) - 1>>
      <4>1. TAKE k \in 1..(size - used)
      <4>2. used + k \in 1..size /\ size > 0
        BY <1>2
      <4> QED BY <1>5, <1>14, <4>2
    <3>3. 1 \in 1..(size - used)
      BY <1>2, <2>2
    <3>4. Overflow'[1][2] = x[1][2] + (used + 1) - 1
      BY <3>2, <3>3
    <3>5. size > 0 /\ fragmentationOffset + used > 0
      BY <1>2, <2>2, <3>1
    <3>6. \A k \in 1..(size - used) : Overflow'[k] = <<frames', Overflow'[1][2] + k - 1>>
      <4>1. TAKE k \in 1..(size - used)
      <4>2. x[1][2] \in Nat /\ x[1][2] + (used + k) - 1 = (x[1][2] + (used + 1) - 1) + k - 1
        BY <1>2, <1>14, <3>5
      <4> QED BY <3>2, <3>4, <4>2
    <3>7. ASSUME ~stale \/ fragmentationOffset' = 0
          PROVE  Overflow'[1][2] = fragmentationOffset' + 1
      <4>1. ~stale
        BY <1>2, <3>1, <3>5, <3>7
      <4>2. x[1][2] = fragmentationOffset + 1
        BY <1>14, <3>5, <4>1
      <4> QED BY <1>2, <3>1, <3>4, <4>2
    <3> QED BY <1>3, <2>2, <3>6, <3>7
  <2>3. ASSUME used = size, ~stale
        PROVE  fragmentationOffset' = 0
    BY <1>2, <1>7, <2>3 DEF OffsetAfter, Got
  <2>4. ASSUME ~stale, phase' = "pack", packed'[1].offset > 0
        PROVE  format.othersAfterLast
    <3>1. CASE packed = <<>>
      <4>1. packed'[1] = p /\ fragmentationOffset > 0
        <5>1. Len(packed) + 1 = 1
          BY <3>1
        <5>2. packed'[1] = p
          BY <1>9, <5>1
        <5> QED BY <1>6, <2>4, <5>2
      <4>2. used = size /\ size > 0
        BY <1>2, <1>12, <2>4, <4>1 DEF Got
      <4>3. endedFragmentation'
        <5>1. size > 0 /\ ~(used < size) /\ fragmentationOffset > 0
          BY <1>2, <4>1, <4>2
        <5> QED BY <1>7, <5>1
      <4> QED BY <1>7, <2>4, <4>3
    <3>2. CASE packed # <<>>
      <4>1. packed'[1] = packed[1]
        BY <1>9, <3>2
      <4> QED BY <2>4, <3>2, <4>1 DEF Got
    <3> QED BY <3>1, <3>2
  <2>5. CASE used < size
    <3>1. HaveOverflowData(out') /\ phase' = "send"
      BY <1>2, <1>3, <1>12, <2>5 DEF HaveOverflowData
    <3> QED BY <2>1, <2>2, <2>5, <3>1 DEF Divided
  <2>6. CASE used = size
    <3>1. ~HaveOverflowData(out')
      BY <1>3, <2>6 DEF HaveOverflowData
    <3>2. \A k \in 1..out'.overflowSize : FALSE
      BY <1>3, <2>6
    <3> QED BY <1>7, <2>1, <2>3, <2>4, <2>6, <3>1, <3>2 DEF Divided
  <2> QED BY <1>12, <2>5, <2>6
<1>16. FragmentsTold'
  <2>1. SUFFICES ASSUME ~stale PROVE Told(out, packed, owed)'
    BY FragmentsToldIs
  <2>2. Told(b, packed, owed')
    BY <2>1 DEF Got
  <2>3. ASSUME NEW i \in DOMAIN packed'
        PROVE  /\ packed'[i].bytes > 0 =>
                    LET first == Extract(out', packed'[i].start, packed'[i].bytes)[1]
                    IN  /\ packed'[i].offset = first[2] - 1
                        /\ packed'[i].bytes + packed'[i].remaining
                             = Cardinality({k \in DOMAIN owed' : owed'[k][1] = first[1]})
               /\ i > 1 /\ packed'[i].remaining > 0 => format.fragmentsAfterStart
               /\ i > 1 /\ packed'[1].offset > 0 => format.othersAfterLast
    <3>1. CASE i # Len(packed) + 1
      <4>1. i \in DOMAIN packed /\ packed'[i] = packed[i] /\ packed'[1] = packed[1]
        BY <1>9, <3>1
      <4>2. Extract(out', packed[i].start, packed[i].bytes) = Extract(b, packed[i].start, packed[i].bytes)
        BY <1>5, <4>1
      <4>3. /\ packed[i].bytes > 0 =>
                 LET first == Extract(b, packed[i].start, packed[i].bytes)[1]
                 IN  /\ packed[i].offset = first[2] - 1
                     /\ packed[i].bytes + packed[i].remaining
                          = Cardinality({k \in DOMAIN owed' : owed'[k][1] = first[1]})
            /\ i > 1 /\ packed[i].remaining > 0 => format.fragmentsAfterStart
            /\ i > 1 /\ packed[1].offset > 0 => format.othersAfterLast
        BY <2>2, <4>1 DEF Told
      <4> QED BY <4>1, <4>2, <4>3
    <3>2. CASE i = Len(packed) + 1
      <4>1. packed'[i] = p /\ Extract(out', p.start, p.bytes) = y
        <5>1. packed'[i] = p
          BY <1>9, <3>2
        <5>2. Extract(out', b.curOffset, used) = y
          BY <1>4
        <5> QED BY <1>6, <5>1, <5>2
      <4>2. ASSUME used > 0
            PROVE  /\ p.offset = y[1][2] - 1
                   /\ p.bytes + p.remaining = Cardinality({k \in DOMAIN owed' : owed'[k][1] = y[1][1]})
        <5>1. y[1] = x[1] /\ size > 0 /\ 1 \in 1..size
          BY <1>2, <1>5, <4>2
        <5>2. x[1][1] = frames' /\ x[1][2] = fragmentationOffset + 1
          BY <1>14, <2>1, <5>1
        <5>3. Cardinality({k \in DOMAIN owed' : owed'[k][1] = frames'}) = size
          BY <5>1 DEF Got
        <5>4. p.bytes + p.remaining = size
          BY <1>2, <1>6
        <5> QED BY <1>6, <5>1, <5>2, <5>3, <5>4
      <4>3. i > 1 /\ p.remaining > 0 => format.fragmentsAfterStart
        BY <1>2, <1>6, <1>9, <3>2 DEF Amount
      <4>4. ASSUME i > 1, packed'[1].offset > 0 PROVE format.othersAfterLast
        <5>1. packed # <<>> /\ packed'[1] = packed[1]
          BY <1>9, <3>2, <4>4
        <5> QED BY <2>1, <4>4, <5>1 DEF Got
      <4> QED BY <1>6, <4>1, <4>2, <4>3, <4>4
    <3> QED BY <3>1, <3>2
  <2> QED BY <2>3 DEF Told
<1>17. HaveOverflowData(out') => out'.packetStart + out'.overflowOffset + out'.overflowSize <= Limit
  BY <1>2, <1>3, <1>12 DEF HaveOverflowData
<1> QED BY <1>3, <1>7, <1>8, <1>9, <1>11, <1>13, <1>15, <1>16, <1>17 DEF Goods

LEMMA AfterGettingFrameKeeps ==
  ASSUME format \in Formats, packed \in Seq(Part), fragmentationOffset \in Nat, stale \in BOOLEAN,
         NEW b, NEW size, Got(b, size), NEW follow, NEW again,
         AfterGettingFrame(b, size, follow, again),
         UNCHANGED <<format, noFramesLeft, stale>>, ~noFramesLeft
  PROVE  Goods'
<1>1. /\ RtpHeaderSize \in Nat /\ format.special \in Nat /\ format.specific \in Nat
      /\ Preferred \in Nat /\ MaxPacket \in Nat /\ Preferred + format.specific <= MaxPacket
  BY Sizes
<1>2. size \in Nat /\ b.curOffset \in Nat /\ b.curOffset < MaxPacket
  <2>1. size \in Nat /\ b.curOffset \in Nat /\ b.curOffset < Preferred + format.specific
    BY GotPlaces
  <2> QED BY <1>1, <2>1
<1>3. PICK divides, used :
        /\ divides = (IsTooBigForAPacket(size) /\ (packed = <<>> \/ format.fragmentsAfterStart))
        /\ used = IF ~WouldOverflow(b, size) THEN size
                  ELSE IF divides THEN size - NumOverflowBytes(b, size) ELSE 0
  OBVIOUS
<1>4. \/ size > 0 /\ KeepForNextPacket(b, size)
      \/ ~(size > 0 /\ used = 0) /\ Use(b, size, used, again)
  BY <1>3 DEF AfterGettingFrame
<1>5. CASE size > 0 /\ KeepForNextPacket(b, size)
  BY <1>5, KeepKeeps
<1>6. CASE ~(size > 0 /\ used = 0) /\ Use(b, size, used, again)
  <2>1. used \in 0..size /\ Amount(b, size, used)
    <3>1. CASE ~WouldOverflow(b, size)
      BY <1>1, <1>2, <1>3, <3>1 DEF WouldOverflow, NumOverflowBytes, Amount
    <3>2. CASE WouldOverflow(b, size) /\ divides
      <4>1. used = MaxPacket - b.curOffset /\ b.curOffset + size > MaxPacket
        BY <1>1, <1>2, <1>3, <3>2 DEF WouldOverflow, NumOverflowBytes
      <4>2. 0 < used /\ used < size /\ b.curOffset + used = MaxPacket /\ used \in 0..size
        BY <1>1, <1>2, <4>1
      <4>3. packed = <<>> \/ format.fragmentsAfterStart
        BY <1>3, <3>2
      <4> QED BY <4>2, <4>3 DEF Amount
    <3>3. CASE WouldOverflow(b, size) /\ ~divides
      <4>1. used = 0 /\ size = 0
        BY <1>2, <1>3, <1>6, <3>3
      <4> QED BY <1>1, <1>2, <4>1 DEF Amount
    <3> QED BY <3>1, <3>2, <3>3
  <2> QED BY <1>6, <2>1, UseKeeps
<1> QED BY <1>4, <1>5, <1>6

(* The rest of the type, which afterGettingFrame1 does not disturb. *)
LEMMA GoodsType ==
  ASSUME Goods', format' \in Formats, noFramesLeft' \in BOOLEAN, headerSizes' \in Nat,
         frames' \in 0..MaxFrames, owed' \in Seq(Byte), stale' \in BOOLEAN
  PROVE  IInv'
<1>1. /\ Preferred \in Nat /\ MaxPacket \in Nat /\ Limit \in Nat /\ Preferred <= MaxPacket
  BY Sizes
<1>2. out' \in Buffer /\ out'.packetStart \in Nat /\ out'.curOffset \in Nat
  BY DEF Goods, Buffer
<1>3. out'.curOffset <= MaxPacket /\ out'.packetStart + MaxPacket <= Limit
  BY <1>1, <1>2 DEF Goods, Placed
<1>4. TypeOK'
  BY <1>1, <1>2, <1>3 DEF TypeOK, Goods, Buffer, Part, CurPtr
<1> QED BY <1>4 DEF IInv, Goods

-----------------------------------------------------------------------------
(* packFrame.                                                              *)

LEMMA Skips ==
  ASSUME Limit \in Nat, NEW b \in Buffer, NEW n \in Nat, b.packetStart + b.curOffset + n <= Limit,
         NEW c, c = SkipBytes(b, n)
  PROVE  /\ c \in Buffer /\ c.bytes = b.bytes /\ c.packetStart = b.packetStart
         /\ c.curOffset = b.curOffset + n
         /\ c.overflowOffset = b.overflowOffset /\ c.overflowSize = b.overflowSize
<1>1. b.packetStart \in Nat /\ b.curOffset \in Nat
  BY DEF Buffer
<1>2. ~(n > TotalBytesAvailable(b))
  BY <1>1 DEF TotalBytesAvailable, CurPtr
<1>3. c = [b EXCEPT !.curOffset = @ + n]
  BY <1>2 DEF SkipBytes, Increment
<1>4. b.curOffset + n \in Nat
  BY <1>1
<1> QED BY <1>3, <1>4 DEF Buffer

(* What the invariant says when a frame is to be packed. *)
LEMMA WhenPacking ==
  ASSUME IInv, phase = "pack"
  PROVE  /\ RtpHeaderSize \in Nat /\ format.special \in Nat /\ format.specific \in Nat
         /\ Preferred \in Nat /\ MaxPacket \in Nat /\ Limit \in Nat
         /\ Preferred + format.specific <= MaxPacket
         /\ out \in Buffer /\ out.packetStart \in Nat /\ out.curOffset \in Nat
         /\ out.overflowOffset \in Nat /\ out.overflowSize \in Nat
         /\ out.packetStart + MaxPacket <= Limit
         /\ out.packetStart + out.curOffset + format.specific <= Limit
         /\ FrontHeaders \in Nat /\ AllHeaders = FrontHeaders + format.specific
         /\ out.curOffset >= FrontHeaders /\ out.curOffset < Preferred /\ noFramesLeft = FALSE
         /\ \A i \in DOMAIN packed : /\ packed[i].start \in Nat /\ packed[i].bytes \in Nat
                                     /\ packed[i].start >= FrontHeaders
                                     /\ packed[i].start + packed[i].bytes <= out.curOffset
         /\ headerSizes \in Nat
         /\ packed \in Seq(Part) /\ fragmentationOffset \in Nat /\ stale \in BOOLEAN
         /\ Payload = PayloadIn(out, packed)
         /\ Len(Payload) = out.curOffset - FrontHeaders - headerSizes
         /\ Payload \o Overflow = owed
<1>1. /\ RtpHeaderSize \in Nat /\ format.special \in Nat /\ format.specific \in Nat
      /\ Preferred \in Nat /\ MaxPacket \in Nat /\ Limit \in Nat
      /\ Preferred + format.specific <= MaxPacket
  BY Sizes DEF IInv, TypeOK
<1>2. /\ out \in Buffer /\ out.packetStart \in Nat /\ out.curOffset \in Nat
      /\ out.overflowOffset \in Nat /\ out.overflowSize \in Nat
  BY DEF IInv, Buffer
<1>3. /\ out.packetStart + MaxPacket <= Limit
      /\ out.curOffset >= FrontHeaders /\ out.curOffset < Preferred /\ ~noFramesLeft
      /\ PartsBefore(out.curOffset)
  BY DEF IInv, Placed
<1>4. /\ packed \in Seq(Part) /\ fragmentationOffset \in Nat /\ stale \in BOOLEAN
      /\ noFramesLeft \in BOOLEAN /\ headerSizes \in Nat
  BY DEF IInv, TypeOK, Part
<1>5. \A i \in DOMAIN packed : packed[i].start \in Nat /\ packed[i].bytes \in Nat
  BY <1>4, PartIs
<1>6. FrontHeaders \in Nat /\ AllHeaders = FrontHeaders + format.specific
  BY <1>1 DEF FrontHeaders, AllHeaders
<1>7. Payload \o Overflow = owed
  BY DEF IInv, BytesKept, Overflow
<1>8. out.packetStart + out.curOffset + format.specific <= Limit
  BY <1>1, <1>2, <1>3
<1> QED BY <1>1, <1>2, <1>3, <1>4, <1>5, <1>6, <1>7, <1>8, PayloadIs DEF PartsBefore

(* The overflow data are moved to the packet's start. *)
LEMMA OverflowComes ==
  ASSUME IInv, phase = "pack", HaveOverflowData(out), NEW b, b = SkipBytes(out, format.specific),
         headerSizes' = headerSizes + format.specific,
         UNCHANGED <<format, noFramesLeft, frames, owed, stale>>
  PROVE  Got(UseOverflowData(b), b.overflowSize)
<1>1. /\ format.specific \in Nat /\ Preferred \in Nat /\ MaxPacket \in Nat /\ Limit \in Nat
      /\ out \in Buffer /\ out.packetStart \in Nat /\ out.curOffset \in Nat
      /\ out.overflowOffset \in Nat /\ out.overflowSize \in Nat
      /\ out.packetStart + MaxPacket <= Limit
      /\ out.packetStart + out.curOffset + format.specific <= Limit
      /\ FrontHeaders \in Nat /\ AllHeaders = FrontHeaders + format.specific
      /\ out.curOffset < Preferred /\ headerSizes \in Nat
  BY WhenPacking
<1>2. /\ Payload = PayloadIn(out, packed) /\ Payload \o Overflow = owed
      /\ Len(Payload) = out.curOffset - FrontHeaders - headerSizes
  BY WhenPacking
<1>3. /\ packed = <<>> /\ out.curOffset = FrontHeaders /\ out.overflowOffset >= AllHeaders
      /\ out.packetStart + out.overflowOffset + out.overflowSize <= Limit
      /\ out.overflowSize > 0
  BY DEF IInv, Placed, TypeOK, HaveOverflowData
<1>4. PICK n, cur, ps, data, d, c :
        /\ n = out.overflowSize /\ cur = AllHeaders /\ ps = out.packetStart
        /\ data = Extract(b, b.overflowOffset, b.overflowSize)
        /\ d = Insert(b, data, b.curOffset) /\ c = ResetOverflowData(d)
  OBVIOUS
<1>5. /\ b \in Buffer /\ b.bytes = out.bytes /\ b.packetStart = ps /\ b.curOffset = cur
      /\ b.overflowOffset = out.overflowOffset /\ b.overflowSize = n
  <2>1. /\ b \in Buffer /\ b.bytes = out.bytes /\ b.packetStart = out.packetStart
        /\ b.curOffset = out.curOffset + format.specific
        /\ b.overflowOffset = out.overflowOffset /\ b.overflowSize = out.overflowSize
    BY <1>1, Skips
  <2> QED BY <1>1, <1>3, <1>4, <2>1
<1>6. UseOverflowData(b) = c
  BY <1>4 DEF UseOverflowData
<1>7. n \in Nat /\ n > 0 /\ cur \in Nat /\ ps \in Nat /\ ps + cur + n <= Limit
  <2>1. n \in Nat /\ n > 0 /\ ps \in Nat
    BY <1>1, <1>3, <1>4
  <2>2. cur \in Nat
    BY <1>1, <1>4
  <2>3. PICK o : o = out.overflowOffset
    OBVIOUS
  <2>4. o \in Nat /\ o >= cur /\ ps + o + n <= Limit /\ Limit \in Nat
    BY <1>1, <1>3, <1>4, <2>3
  <2> QED BY <2>1, <2>2, <2>4
<1>8. data = Overflow
  BY <1>4, <1>5 DEF Overflow, Extract
<1>9. data \in Seq(Byte) /\ Len(data) = n
  <2>1. b.packetStart + b.overflowOffset + b.overflowSize <= Limit
    BY <1>3, <1>4, <1>5
  <2>2. b.overflowOffset \in Nat /\ b.overflowSize \in Nat /\ Limit \in Nat
    BY <1>1, <1>5, <1>7
  <2> QED BY <1>4, <1>5, <2>1, <2>2, ExtractTakes
<1>10. /\ d \in Buffer /\ d.packetStart = ps /\ d.curOffset = cur
       /\ \A p \in 0..(Limit - 1) :
              d.bytes[p] = IF ps + cur <= p /\ p < ps + cur + Len(data)
                           THEN data[p - (ps + cur) + 1] ELSE b.bytes[p]
  <2>1. Limit \in Nat /\ b.packetStart + cur + Len(data) <= Limit /\ d = Insert(b, data, cur)
    BY <1>1, <1>4, <1>5, <1>7, <1>9
  <2>2. b \in Buffer /\ cur \in Nat /\ data \in Seq(Byte)
    BY <1>5, <1>7, <1>9
  <2>3. /\ d \in Buffer
        /\ d.packetStart = b.packetStart /\ d.curOffset = b.curOffset
        /\ \A p \in 0..(Limit - 1) :
             d.bytes[p] = IF b.packetStart + cur <= p /\ p < b.packetStart + cur + Len(data)
                          THEN data[p - (b.packetStart + cur) + 1] ELSE b.bytes[p]
    BY <2>1, <2>2, InsertWrites
  <2> QED BY <1>5, <2>3
<1>11. /\ c \in Buffer /\ c.bytes = d.bytes /\ c.packetStart = ps
       /\ c.curOffset = cur /\ c.overflowSize = 0
  BY <1>4, <1>10 DEF ResetOverflowData, SetOverflowData, Buffer
<1>12. Extract(c, cur, n) = data
  <2>1. /\ Extract(c, cur, n) \in Seq(Byte) /\ Len(Extract(c, cur, n)) = n
        /\ \A i \in 1..n : Extract(c, cur, n)[i] = c.bytes[c.packetStart + cur + i - 1]
    <3>1. Limit \in Nat /\ c.packetStart + cur + n <= Limit
      BY <1>1, <1>7, <1>11
    <3>2. c \in Buffer /\ cur \in Nat /\ n \in Nat
      BY <1>7, <1>11
    <3> QED BY <3>1, <3>2, ExtractTakes
  <2>2. ASSUME NEW i \in 1..n
        PROVE  Extract(c, cur, n)[i] = data[i]
    <3>1. PICK p : p = ps + cur + i - 1
      OBVIOUS
    <3>2. /\ p \in 0..(Limit - 1) /\ ps + cur <= p /\ p < ps + cur + n
          /\ p - (ps + cur) + 1 = i
      BY <1>1, <1>7, <3>1
    <3>3. Extract(c, cur, n)[i] = c.bytes[p]
      BY <1>11, <2>1, <3>1
    <3> QED BY <1>9, <1>10, <1>11, <3>2, <3>3
  <2> QED BY <1>9, <2>1, <2>2, SeqEqual
<1>13. PayloadIn(c, packed) = <<>> /\ Payload = <<>>
  BY <1>2, <1>3, PayloadOfNone
<1>14. owed = data /\ owed' = data
  <2>1. <<>> \o data = data
    BY <1>9, ConcatEmptySeq
  <2> QED BY <1>2, <1>8, <1>13, <2>1
<1>15. headerSizes' = format.specific
  <2>1. Len(Payload) = 0
    BY <1>13
  <2>2. headerSizes = 0
    BY <1>1, <1>2, <1>3, <2>1
  <2> QED BY <1>1, <2>2
<1>16. \A k \in 1..n : data[k] = <<frames', data[1][2] + k - 1>>
  BY <1>4, <1>8 DEF IInv, Divided
<1>17. Cardinality({k \in DOMAIN owed' : owed'[k][1] = frames'}) = n
  <2>1. DOMAIN owed' = 1..n
    BY <1>9, <1>14
  <2>2. {k \in DOMAIN owed' : owed'[k][1] = frames'} = 1..n
    BY <1>14, <1>16, <2>1
  <2>3. Cardinality(1..n) = n
    BY <1>7, FS_Interval
  <2> QED BY <2>2, <2>3
<1>18. ~stale \/ fragmentationOffset = 0 => data[1][2] = fragmentationOffset + 1
  BY <1>8 DEF IInv, Divided
<1>19. \A k \in DOMAIN owed' : owed'[k][1] <= frames'
  BY DEF IInv, Divided
<1>20. /\ \A i \in DOMAIN packed : FALSE
       /\ Told(c, packed, owed')
  BY <1>3 DEF Told
<1>21. /\ cur >= AllHeaders /\ cur < Preferred + format.specific
       /\ headerSizes' \in Nat /\ c.packetStart + MaxPacket <= Limit
       /\ c.packetStart + cur + n <= Limit
  <2>1. cur = out.curOffset + format.specific
    BY <1>1, <1>3, <1>4
  <2>2. cur >= AllHeaders
    BY <1>4, <1>7
  <2>3. cur < Preferred + format.specific
    BY <1>1, <2>1
  <2>4. c.packetStart + MaxPacket <= Limit /\ c.packetStart + cur + n <= Limit
    BY <1>1, <1>4, <1>7, <1>11
  <2> QED BY <1>1, <1>15, <2>2, <2>3, <2>4
<1>22. Len(PayloadIn(c, packed)) = cur - FrontHeaders - headerSizes'
  <2>1. Len(PayloadIn(c, packed)) = 0
    BY <1>13
  <2>2. cur - FrontHeaders - headerSizes' = 0
    BY <1>1, <1>4, <1>15
  <2> QED BY <2>1, <2>2
<1>23. PayloadIn(c, packed) \o Extract(c, cur, n) = owed'
  <2>1. <<>> \o data = data
    BY <1>9, ConcatEmptySeq
  <2> QED BY <1>12, <1>13, <1>14, <2>1
<1>24. Got(c, n)
  <2>1. Extract(c, c.curOffset, n) = data
    BY <1>11, <1>12
  <2>2. /\ c \in Buffer /\ n \in Nat /\ headerSizes' \in Nat
        /\ c.packetStart + MaxPacket <= Limit /\ c.packetStart + c.curOffset + n <= Limit
        /\ c.curOffset >= AllHeaders /\ c.curOffset < Preferred + format.specific
        /\ c.overflowSize = 0
    BY <1>7, <1>11, <1>21
  <2>3. /\ \A i \in DOMAIN packed : FALSE
        /\ packed = <<>> /\ n > 0
    BY <1>3, <1>7
  <2>4. /\ Len(PayloadIn(c, packed)) = c.curOffset - FrontHeaders - headerSizes'
        /\ PayloadIn(c, packed) \o data = owed'
    BY <1>11, <1>12, <1>22, <1>23
  <2> QED BY <1>16, <1>17, <1>18, <1>19, <1>20, <2>1, <2>2, <2>3, <2>4 DEF Got
<1> QED BY <1>5, <1>6, <1>24

(* There are no overflow data, and the source is asked. *)
LEMMA SourceIsAsked ==
  ASSUME IInv, phase = "pack", ~HaveOverflowData(out), out' = SkipBytes(out, format.specific),
         phase' = "reading", headerSizes' = headerSizes + format.specific,
         UNCHANGED <<format, fragmentationOffset, endedFragmentation, noFramesLeft, packed,
                     frames, owed, stale>>
  PROVE  IInv'
<1>1. /\ format.specific \in Nat /\ Preferred \in Nat /\ MaxPacket \in Nat /\ Limit \in Nat
      /\ out \in Buffer /\ out.packetStart \in Nat /\ out.curOffset \in Nat
      /\ out.overflowOffset \in Nat /\ out.overflowSize \in Nat
      /\ out.packetStart + MaxPacket <= Limit
      /\ out.packetStart + out.curOffset + format.specific <= Limit
      /\ FrontHeaders \in Nat /\ AllHeaders = FrontHeaders + format.specific
      /\ out.curOffset >= FrontHeaders /\ out.curOffset < Preferred /\ noFramesLeft = FALSE
      /\ headerSizes \in Nat
  BY WhenPacking
<1>2. \A i \in DOMAIN packed : /\ packed[i].start >= FrontHeaders
                               /\ packed[i].start + packed[i].bytes <= out.curOffset
  BY WhenPacking
<1>3. /\ Payload = PayloadIn(out, packed) /\ Payload \o Overflow = owed
      /\ Len(Payload) = out.curOffset - FrontHeaders - headerSizes
  BY WhenPacking
<1>4. /\ out' \in Buffer /\ out'.bytes = out.bytes /\ out'.packetStart = out.packetStart
      /\ out'.curOffset = out.curOffset + format.specific
      /\ out'.overflowOffset = out.overflowOffset /\ out'.overflowSize = out.overflowSize
  <2>1. PICK c : c = out'
    OBVIOUS
  <2> QED BY <1>1, <2>1, Skips
<1>5. \A from, n : Extract(out', from, n) = Extract(out, from, n)
  BY <1>4 DEF Extract
<1>6. Payload' = Payload /\ Overflow' = Overflow
  <2>1. Payload' = PayloadIn(out', packed)
    BY PayloadIs
  <2> QED BY <1>3, <1>4, <1>5, <2>1, PayloadSame DEF Overflow
<1>7. BytesKept'
  BY <1>3, <1>6 DEF BytesKept, Overflow
<1>8. out'.overflowSize = 0 /\ ~HaveOverflowData(out')
  BY <1>1, <1>4 DEF HaveOverflowData
<1>9. headerSizes' \in Nat /\ out'.curOffset - format.specific = out.curOffset
  BY <1>1, <1>4
<1>10. Placed'
  <2>1. FrontHeaders' = FrontHeaders /\ AllHeaders' = AllHeaders
    BY DEF FrontHeaders, AllHeaders
  <2>2. out'.curOffset - FrontHeaders - headerSizes' = out.curOffset - FrontHeaders - headerSizes
    BY <1>1, <1>4
  <2>3. PartsBefore(out.curOffset - format.specific)'
    BY <1>2, <1>3, <1>6, <1>9, <2>1, <2>2 DEF PartsBefore
  <2>4. packed = <<>> => out'.curOffset = AllHeaders
    BY <1>1, <1>4 DEF IInv, Placed
  <2>5. out'.curOffset >= AllHeaders /\ out'.curOffset < Preferred + format.specific
        /\ out'.packetStart + MaxPacket <= Limit
    BY <1>1, <1>4
  <2> QED BY <1>1, <1>8, <2>1, <2>3, <2>4, <2>5 DEF Placed
<1>11. Divided'
  <2>1. Divided
    BY DEF IInv
  <2> QED BY <1>4, <1>6, <1>8, <2>1 DEF Divided, HaveOverflowData
<1>12. FragmentsTold'
  <2>1. ~stale => Told(out, packed, owed)
    BY FragmentsToldIs DEF IInv
  <2>2. ~stale => Told(out', packed, owed)
    BY <1>5, <2>1, ToldSame
  <2>3. ~stale => Told(out, packed, owed)'
    BY <2>2 DEF Told
  <2> QED BY <2>3, FragmentsToldIs
<1>13. TypeOK'
  <2>1. CurPtr(out') <= Limit
    BY <1>1, <1>4 DEF CurPtr
  <2>2. TypeOK
    BY DEF IInv
  <2> QED BY <1>4, <1>8, <1>9, <2>1, <2>2 DEF TypeOK, Buffer
<1> QED BY <1>4, <1>7, <1>10, <1>11, <1>12, <1>13 DEF IInv

LEMMA PackFrameKeeps ==
  ASSUME IInv, PackFrame
  PROVE  IInv'
<1>1. /\ phase = "pack" /\ headerSizes' = headerSizes + format.specific
      /\ UNCHANGED <<format, noFramesLeft, frames, owed, stale>>
  BY DEF PackFrame
<1>2. PICK b : b = SkipBytes(out, format.specific)
  OBVIOUS
<1>3. HaveOverflowData(b) <=> HaveOverflowData(out)
  BY <1>2 DEF HaveOverflowData, SkipBytes, Increment, IInv, Buffer
<1>4. CASE HaveOverflowData(out)
  <2>1. PICK follow, again : AfterGettingFrame(UseOverflowData(b), b.overflowSize, follow, again)
    BY <1>2, <1>3, <1>4 DEF PackFrame
  <2>2. Got(UseOverflowData(b), b.overflowSize)
    BY <1>1, <1>2, <1>4, OverflowComes
  <2>3. /\ format \in Formats /\ packed \in Seq(Part) /\ fragmentationOffset \in Nat
        /\ stale \in BOOLEAN /\ ~noFramesLeft
    BY <1>1, WhenPacking DEF IInv, TypeOK
  <2>4. Goods'
    BY <1>1, <2>1, <2>2, <2>3, AfterGettingFrameKeeps
  <2>5. /\ (format \in Formats)' /\ (noFramesLeft \in BOOLEAN)' /\ (headerSizes \in Nat)'
        /\ (frames \in 0..MaxFrames)' /\ (owed \in Seq(Byte))' /\ (stale \in BOOLEAN)'
    BY <1>1, <2>2 DEF IInv, TypeOK, Got
  <2> QED BY <2>4, <2>5, GoodsType
<1>5. CASE ~HaveOverflowData(out)
  <2>1. /\ out' = b /\ phase' = "reading"
        /\ UNCHANGED <<fragmentationOffset, endedFragmentation, packed>>
    BY <1>2, <1>3, <1>5 DEF PackFrame
  <2> QED BY <1>1, <1>2, <1>5, <2>1, SourceIsAsked
<1> QED BY <1>4, <1>5

-----------------------------------------------------------------------------
(* A frame that the source delivers.                                       *)

(* The bytes of a new frame do not count as some older frame's. *)
LEMMA CountStays ==
  ASSUME NEW s \in Seq(Byte), NEW t \in Seq(Byte), NEW f, \A k \in 1..Len(t) : t[k][1] # f
  PROVE  {k \in DOMAIN (s \o t) : (s \o t)[k][1] = f} = {k \in DOMAIN s : s[k][1] = f}
<1>1. PICK m, n, u : m = Len(s) /\ n = Len(t) /\ u = s \o t
  OBVIOUS
<1>2. m \in Nat /\ n \in Nat /\ DOMAIN s = 1..m
  BY <1>1
<1>3. /\ DOMAIN u = 1..(m + n)
      /\ \A i \in 1..(m + n) : u[i] = IF i <= m THEN s[i] ELSE t[i - m]
  BY <1>1, ConcatProperties
<1>4. \A k \in 1..(m + n) : k > m => k - m \in 1..n
  BY <1>2
<1>5. \A k \in 1..(m + n) : k > m => u[k][1] # f
  BY <1>1, <1>2, <1>3, <1>4
<1>6. \A k \in 1..m : k \in 1..(m + n) /\ u[k] = s[k]
  BY <1>2, <1>3
<1>7. {k \in 1..(m + n) : u[k][1] = f} = {k \in 1..m : s[k][1] = f}
  BY <1>2, <1>5, <1>6
<1> QED BY <1>1, <1>2, <1>3, <1>7

LEMMA FrameIsGot ==
  ASSUME IInv, phase = "reading", frames < MaxFrames, NEW read \in Nat,
         read <= TotalBytesAvailable(out), NEW data, data = [i \in 1..read |-> <<frames + 1, i>>],
         frames' = frames + 1, owed' = owed \o data,
         UNCHANGED <<format, noFramesLeft, headerSizes, stale>>
  PROVE  Got(Insert(out, data, out.curOffset), read) /\ owed' \in Seq(Byte)
<1>1. /\ RtpHeaderSize \in Nat /\ format.special \in Nat /\ format.specific \in Nat
      /\ Preferred \in Nat /\ MaxPacket \in Nat /\ Limit \in Nat /\ MaxFrames \in Nat
      /\ Preferred + format.specific <= MaxPacket
  BY Sizes DEF IInv, TypeOK
<1>2. /\ out \in Buffer /\ out.packetStart \in Nat /\ out.curOffset \in Nat
      /\ out.overflowOffset \in Nat /\ out.overflowSize \in Nat
      /\ frames \in Nat /\ stale \in BOOLEAN /\ packed \in Seq(Part) /\ headerSizes \in Nat
      /\ fragmentationOffset \in Nat /\ owed \in Seq(Byte)
  BY <1>1 DEF IInv, TypeOK, Buffer, Part
<1>3. /\ FrontHeaders \in Nat /\ AllHeaders = FrontHeaders + format.specific
      /\ out.curOffset >= AllHeaders /\ out.curOffset < Preferred + format.specific
      /\ out.overflowSize = 0 /\ out.packetStart + MaxPacket <= Limit
      /\ out.curOffset - format.specific \in Nat
      /\ \A i \in DOMAIN packed : /\ packed[i].start >= FrontHeaders
                                  /\ packed[i].start + packed[i].bytes <= out.curOffset - format.specific
  <2>1. FrontHeaders \in Nat /\ AllHeaders = FrontHeaders + format.specific
    BY <1>1 DEF FrontHeaders, AllHeaders
  <2>2. /\ out.curOffset >= AllHeaders /\ out.curOffset < Preferred + format.specific
        /\ ~HaveOverflowData(out) /\ out.packetStart + MaxPacket <= Limit
        /\ PartsBefore(out.curOffset - format.specific)
    BY DEF IInv, Placed
  <2>3. out.overflowSize = 0
    BY <1>2, <2>2 DEF HaveOverflowData
  <2>4. out.curOffset - format.specific \in Nat
    <3>1. PICK cur, s, f : cur = out.curOffset /\ s = format.specific /\ f = FrontHeaders
      OBVIOUS
    <3>2. cur \in Nat /\ s \in Nat /\ f \in Nat /\ cur >= f + s
      BY <1>1, <1>2, <2>1, <2>2, <3>1
    <3>3. cur - s \in Nat
      BY <3>2
    <3> QED BY <3>1, <3>3
  <2> QED BY <2>1, <2>2, <2>3, <2>4 DEF PartsBefore
<1>4. Len(Payload) = out.curOffset - FrontHeaders - headerSizes
  BY DEF IInv, Placed, PartsBefore
<1>5. Overflow = <<>> /\ PayloadIn(out, packed) = Payload /\ owed = Payload
  <2>1. Overflow = <<>>
    BY <1>3, ExtractNothing DEF Overflow
  <2>2. Payload \o <<>> = owed
    BY <2>1 DEF IInv, BytesKept, Overflow
  <2>3. Payload \in Seq(Byte)
    <3>1. Fit(out, packed)
      <4>1. PICK end, ps : end = out.curOffset - format.specific /\ ps = out.packetStart
        OBVIOUS
      <4>2. end \in Nat /\ ps \in Nat /\ ps + end <= Limit
        <5>1. PICK cur, s : cur = out.curOffset /\ s = format.specific
          OBVIOUS
        <5>2. /\ cur \in Nat /\ s \in Nat /\ cur < Preferred + s /\ end = cur - s
              /\ end \in Nat /\ ps \in Nat /\ ps + MaxPacket <= Limit
          BY <1>1, <1>2, <1>3, <4>1, <5>1
        <5>3. MaxPacket \in Nat /\ Limit \in Nat /\ Preferred \in Nat /\ Preferred + s <= MaxPacket
          BY <1>1, <5>1
        <5> QED BY <5>2, <5>3
      <4>3. ASSUME NEW i \in DOMAIN packed
            PROVE  out.packetStart + packed[i].start + packed[i].bytes <= Limit
        <5>1. packed[i].start \in Nat /\ packed[i].bytes \in Nat
          BY <1>2, PartIs
        <5>2. packed[i].start + packed[i].bytes <= end
          BY <1>3, <4>1
        <5> QED BY <1>1, <4>1, <4>2, <5>1, <5>2
      <4> QED BY <4>3 DEF Fit
    <3> QED BY <1>1, <1>2, <3>1, PayloadType, PayloadIs
  <2> QED BY <2>1, <2>2, <2>3, ConcatEmptySeq, PayloadIs
<1>6. /\ out.packetStart + out.curOffset + read <= Limit
      /\ data \in Seq(Byte) /\ Len(data) = read /\ \A k \in 1..read : data[k] = <<frames + 1, k>>
  <2>1. out.packetStart + out.curOffset + read <= Limit
    BY <1>1, <1>2 DEF TotalBytesAvailable, CurPtr
  <2>2. ASSUME NEW k \in 1..read PROVE <<frames + 1, k>> \in Byte
    <3>1. frames + 1 \in 1..MaxFrames /\ k \in 1..Limit
      BY <1>1, <1>2, <2>1
    <3> QED BY <3>1 DEF Byte
  <2> QED BY <2>1, <2>2
<1>7. PICK c : c = Insert(out, data, out.curOffset)
  OBVIOUS
<1>8. /\ c \in Buffer /\ c.packetStart = out.packetStart /\ c.curOffset = out.curOffset
      /\ c.overflowSize = 0
      /\ \A p \in 0..(Limit - 1) :
              c.bytes[p] = IF out.packetStart + out.curOffset <= p
                              /\ p < out.packetStart + out.curOffset + Len(data)
                           THEN data[p - (out.packetStart + out.curOffset) + 1] ELSE out.bytes[p]
  <2>1. out.packetStart + out.curOffset + Len(data) <= Limit /\ Limit \in Nat
    BY <1>1, <1>6
  <2>2. PICK to : to = out.curOffset
    OBVIOUS
  <2>3. out \in Buffer /\ to \in Nat /\ data \in Seq(Byte) /\ Limit \in Nat
        /\ out.packetStart + to + Len(data) <= Limit /\ c = Insert(out, data, to)
    BY <1>2, <1>6, <1>7, <2>1, <2>2
  <2>4. PICK o, t : o = out /\ t = data
    OBVIOUS
  <2>5. o \in Buffer /\ t \in Seq(Byte) /\ Limit \in Nat /\ to \in Nat
        /\ o.packetStart + to + Len(t) <= Limit /\ c = Insert(o, t, to)
    BY <2>3, <2>4
  <2>6. /\ c \in Buffer
        /\ c.packetStart = o.packetStart /\ c.curOffset = o.curOffset
        /\ c.overflowOffset = o.overflowOffset /\ c.overflowSize = o.overflowSize
        /\ \A p \in 0..(Limit - 1) :
             c.bytes[p] = IF o.packetStart + to <= p /\ p < o.packetStart + to + Len(t)
                          THEN t[p - (o.packetStart + to) + 1] ELSE o.bytes[p]
    BY <2>5, InsertWrites
  <2> QED BY <1>3, <2>2, <2>4, <2>6
<1>9. Extract(c, c.curOffset, read) = data
  <2>1. /\ Extract(c, c.curOffset, read) \in Seq(Byte) /\ Len(Extract(c, c.curOffset, read)) = read
        /\ \A i \in 1..read :
             /\ Extract(c, c.curOffset, read)[i] = c.bytes[c.packetStart + c.curOffset + i - 1]
             /\ c.packetStart + c.curOffset + i - 1 \in 0..(Limit - 1)
    <3>1. /\ c.packetStart + c.curOffset + read <= Limit /\ Limit \in Nat
          /\ c.curOffset \in Nat
      BY <1>1, <1>2, <1>6, <1>8
    <3> QED BY <1>8, <3>1, ExtractTakes
  <2>2. ASSUME NEW i \in 1..read
        PROVE  c.bytes[c.packetStart + c.curOffset + i - 1] = data[i]
    <3>1. PICK p : p = c.packetStart + c.curOffset + i - 1
      OBVIOUS
    <3>2. /\ p \in 0..(Limit - 1) /\ out.packetStart + out.curOffset <= p
          /\ p < out.packetStart + out.curOffset + Len(data)
          /\ p - (out.packetStart + out.curOffset) + 1 = i
      <4>1. PICK ps, cur : ps = out.packetStart /\ cur = out.curOffset
        OBVIOUS
      <4>2. ps \in Nat /\ cur \in Nat /\ p = ps + cur + i - 1
        BY <1>2, <1>8, <3>1, <4>1
      <4>3. ps + cur <= p /\ p < ps + cur + read /\ p - (ps + cur) + 1 = i
        BY <4>2
      <4>4. p \in 0..(Limit - 1)
        BY <2>1, <3>1
      <4> QED BY <1>6, <4>1, <4>3, <4>4
    <3> QED BY <1>8, <3>1, <3>2
  <2>3. \A i \in 1..read : Extract(c, c.curOffset, read)[i] = data[i]
    BY <2>1, <2>2
  <2> QED BY <1>6, <2>1, <2>3, SeqEqual
<1>10. /\ \A i \in DOMAIN packed : Extract(c, packed[i].start, packed[i].bytes)
                                     = Extract(out, packed[i].start, packed[i].bytes)
       /\ Fit(c, packed)
  <2>1. PICK end : end = out.curOffset - format.specific
    OBVIOUS
  <2>2. end \in Nat /\ out.packetStart + end <= Limit
        /\ \A i \in DOMAIN packed : packed[i].start + packed[i].bytes <= end
    <3>1. PICK ps, cur, s : ps = out.packetStart /\ cur = out.curOffset /\ s = format.specific
      OBVIOUS
    <3>2. ps \in Nat /\ cur \in Nat /\ s \in Nat /\ end = cur - s /\ end \in Nat /\ Limit \in Nat
      BY <1>1, <1>2, <1>3, <2>1, <3>1
    <3>3. ps + cur + read <= Limit
      BY <1>6, <3>1
    <3>4. ps + end <= Limit
      BY <3>2, <3>3
    <3> QED BY <1>3, <2>1, <3>1, <3>2, <3>4
  <2>3. \A p \in 0..(Limit - 1) : p < out.packetStart + end => c.bytes[p] = out.bytes[p]
    <3>1. ASSUME NEW p \in 0..(Limit - 1), p < out.packetStart + end
          PROVE  ~(out.packetStart + out.curOffset <= p)
      <4>1. PICK ps, cur, s : ps = out.packetStart /\ cur = out.curOffset /\ s = format.specific
        OBVIOUS
      <4>2. ps \in Nat /\ cur \in Nat /\ s \in Nat /\ end = cur - s /\ p < ps + end
        BY <1>1, <1>2, <2>1, <3>1, <4>1
      <4>3. ~(ps + cur <= p)
        BY <4>2
      <4> QED BY <4>1, <4>3
    <3> QED BY <1>8, <3>1
  <2>4. PICK o : o = out
    OBVIOUS
  <2>5. /\ o \in Buffer /\ c \in Buffer /\ packed \in Seq(Part) /\ Limit \in Nat
        /\ o.packetStart + end <= Limit /\ c.packetStart = o.packetStart
        /\ \A p \in 0..(Limit - 1) : p < o.packetStart + end => c.bytes[p] = o.bytes[p]
    BY <1>1, <1>2, <1>8, <2>2, <2>3, <2>4
  <2>6. /\ \A i \in DOMAIN packed : Extract(c, packed[i].start, packed[i].bytes)
                                      = Extract(o, packed[i].start, packed[i].bytes)
        /\ Fit(c, packed)
    BY <2>2, <2>5, PartsStay
  <2> QED BY <2>4, <2>6
<1>11. PayloadIn(c, packed) = Payload
  BY <1>5, <1>10, PayloadSame
<1>12. PICK m : m = Len(owed) /\ m \in Nat
  <2>1. owed \in Seq(Byte)
    BY <1>2
  <2>2. Len(owed) \in Nat
    BY <2>1
  <2> QED BY <2>2
<1>13. /\ owed' \in Seq(Byte) /\ DOMAIN owed' = 1..(m + read)
       /\ \A k \in 1..(m + read) : owed'[k] = IF k <= m THEN owed[k] ELSE data[k - m]
  BY <1>2, <1>6, <1>12, ConcatProperties
<1>14. \A k \in 1..m : owed[k][1] <= frames
  <2>1. \A k \in DOMAIN owed : owed[k][1] <= frames
    BY DEF IInv, Divided
  <2>2. DOMAIN owed = 1..m
    BY <1>2, <1>12
  <2> QED BY <2>1, <2>2
<1>15. ASSUME NEW k \in 1..(m + read)
       PROVE  IF k <= m THEN owed'[k][1] <= frames /\ owed'[k][1] \in Nat ELSE owed'[k][1] = frames + 1
  <2>1. CASE k <= m
    <3>1. k \in 1..m /\ owed'[k] = owed[k] /\ owed[k] \in Byte
      BY <1>2, <1>12, <1>13, <2>1
    <3>2. owed[k][1] \in Nat
      BY <1>1, <3>1, BytesArePairs
    <3> QED BY <1>14, <2>1, <3>1, <3>2
  <2>2. CASE k > m
    <3>1. PICK j : j = k - m
      OBVIOUS
    <3>2. j \in 1..read /\ ~(k <= m)
      BY <1>12, <2>2, <3>1
    <3>3. data[j] = <<frames + 1, j>>
      BY <1>6, <3>2
    <3>4. owed'[k] = <<frames + 1, j>>
      BY <1>13, <3>1, <3>2, <3>3
    <3>5. owed'[k][1] = frames + 1
      <4>1. \A x, y : <<x, y>>[1] = x
        OBVIOUS
      <4> QED BY <3>4, <4>1
    <3> QED BY <3>2, <3>5
  <2> QED BY <1>12, <2>1, <2>2
<1>16. \A k \in DOMAIN owed' : owed'[k][1] <= frames'
  <2>1. ASSUME NEW k \in 1..(m + read) PROVE owed'[k][1] <= frames'
    <3>1. CASE k <= m
      <4>1. PICK v : v = owed'[k][1]
        OBVIOUS
      <4>2. v <= frames /\ v \in Nat /\ frames \in Nat
        BY <1>2, <1>15, <3>1, <4>1
      <4>3. v <= frames + 1
        BY <4>2
      <4> QED BY <4>1, <4>3
    <3>2. CASE ~(k <= m)
      <4>1. owed'[k][1] = frames + 1 /\ frames \in Nat
        BY <1>2, <1>15, <3>2
      <4>2. frames + 1 <= frames'
        BY <4>1
      <4> QED BY <4>1, <4>2
    <3> QED BY <3>1, <3>2
  <2> QED BY <1>13, <2>1
<1>17. read > 0 => Cardinality({k \in DOMAIN owed' : owed'[k][1] = frames'}) = read
  <2>1. {k \in DOMAIN owed' : owed'[k][1] = frames'} = (m + 1)..(m + read)
    <3>1. ASSUME NEW k \in 1..(m + read) PROVE owed'[k][1] = frames + 1 <=> k > m
      <4>1. CASE k <= m
        <5>1. PICK v : v = owed'[k][1]
          OBVIOUS
        <5>2. v <= frames /\ v \in Nat /\ frames \in Nat
          BY <1>2, <1>15, <4>1, <5>1
        <5>3. v # frames + 1
          BY <5>2
        <5> QED BY <1>12, <4>1, <5>1, <5>3
      <4>2. CASE ~(k <= m)
        <5>1. owed'[k][1] = frames + 1
          BY <1>15, <4>2
        <5> QED BY <1>12, <4>2, <5>1
      <4> QED BY <4>1, <4>2
    <3>2. {k \in 1..(m + read) : k > m} = (m + 1)..(m + read)
      BY <1>12
    <3> QED BY <1>13, <3>1, <3>2
  <2>2. PICK from, to : from = m + 1 /\ to = m + read
    OBVIOUS
  <2>3. Cardinality(from..to) = IF from > to THEN 0 ELSE to - from + 1
    <3>1. from \in Int /\ to \in Int
      BY <1>12, <2>2
    <3> QED BY <3>1, FS_Interval
  <2>4. read > 0 => ~(from > to) /\ to - from + 1 = read
    BY <1>12, <2>2
  <2> QED BY <2>1, <2>2, <2>3, <2>4
<1>18. /\ \A k \in 1..read : data[k] = <<frames', data[1][2] + k - 1>>
       /\ read > 0 => data[1][2] = 1
  <2>1. read > 0 => data[1] = <<frames + 1, 1>>
    BY <1>6
  <2> QED BY <1>6, <2>1
<1>19. ~stale => fragmentationOffset = 0
  BY <1>3 DEF IInv, Divided, HaveOverflowData
<1>20. ~stale => Told(c, packed, owed')
  <2>1. SUFFICES ASSUME ~stale PROVE Told(c, packed, owed')
    OBVIOUS
  <2>2. Told(out, packed, owed)
    BY <2>1, FragmentsToldIs DEF IInv
  <2>3. ASSUME NEW i \in DOMAIN packed, packed[i].bytes > 0
        PROVE  LET first == Extract(c, packed[i].start, packed[i].bytes)[1]
               IN  /\ packed[i].offset = first[2] - 1
                   /\ packed[i].bytes + packed[i].remaining
                        = Cardinality({k \in DOMAIN owed' : owed'[k][1] = first[1]})
    <3>1. PICK first : first = Extract(out, packed[i].start, packed[i].bytes)[1]
      OBVIOUS
    <3>2. /\ packed[i].offset = first[2] - 1
          /\ packed[i].bytes + packed[i].remaining
               = Cardinality({k \in DOMAIN owed : owed[k][1] = first[1]})
      BY <2>2, <2>3, <3>1 DEF Told
    <3>3. packed[i].bytes \in Nat /\ packed[i].remaining \in Nat
      BY <1>2, PartIs
    <3>4. Cardinality({k \in DOMAIN owed : owed[k][1] = first[1]}) # 0
      BY <2>3, <3>2, <3>3
    <3>5. {k \in DOMAIN owed : owed[k][1] = first[1]} # {}
      BY <3>4, FS_EmptySet
    <3>6. PICK k \in DOMAIN owed : owed[k][1] = first[1]
      BY <3>5
    <3>7. k \in 1..(m + read) /\ k <= m /\ owed'[k] = owed[k]
      BY <1>2, <1>12, <1>13
    <3>8. first[1] <= frames /\ first[1] \in Nat
      BY <1>15, <3>6, <3>7
    <3>9. \A j \in 1..Len(data) : data[j][1] # first[1]
      BY <1>2, <1>6, <3>8
    <3>10. {j \in DOMAIN owed' : owed'[j][1] = first[1]} = {j \in DOMAIN owed : owed[j][1] = first[1]}
      <4>1. PICK f : f = first[1]
        OBVIOUS
      <4>2. \A j \in 1..Len(data) : data[j][1] # f
        BY <3>9, <4>1
      <4>3. PICK s, t : s = owed /\ t = data
        OBVIOUS
      <4>4. s \in Seq(Byte) /\ t \in Seq(Byte) /\ \A j \in 1..Len(t) : t[j][1] # f
        BY <1>2, <1>6, <4>2, <4>3
      <4>5. {j \in DOMAIN (s \o t) : (s \o t)[j][1] = f} = {j \in DOMAIN s : s[j][1] = f}
        BY <4>4, CountStays
      <4> QED BY <4>1, <4>3, <4>5
    <3> QED BY <1>10, <3>1, <3>2, <3>10
  <2> QED BY <2>2, <2>3 DEF Told
<1>21. PayloadIn(c, packed) \o Extract(c, c.curOffset, read) = owed'
  BY <1>5, <1>9, <1>11
<1>22. ~stale /\ packed # <<>> /\ packed[1].offset > 0 => format.othersAfterLast
  BY DEF IInv, Divided
<1>23. /\ c.curOffset >= AllHeaders /\ c.curOffset < Preferred + format.specific
       /\ c.packetStart + MaxPacket <= Limit /\ c.packetStart + c.curOffset + read <= Limit
       /\ Len(PayloadIn(c, packed)) = c.curOffset - FrontHeaders - headerSizes'
       /\ headerSizes' \in Nat
       /\ \A i \in DOMAIN packed :
            /\ packed[i].start >= FrontHeaders
            /\ packed[i].start + packed[i].bytes <= c.curOffset - format.specific
  BY <1>2, <1>3, <1>4, <1>6, <1>8, <1>11
<1>24. Got(c, read)
  <2>1. read > 0 /\ (~stale \/ fragmentationOffset = 0) => data[1][2] = fragmentationOffset + 1
    BY <1>18, <1>19
  <2>2. PICK e : e = Extract(c, c.curOffset, read) /\ e = data
    BY <1>9
  <2>3. c \in Buffer /\ c.overflowSize = 0
    BY <1>8
  <2>4. \A k \in 1..read : e[k] = <<frames', e[1][2] + k - 1>>
    BY <1>18, <2>2
  <2>5. read > 0 /\ (~stale \/ fragmentationOffset = 0) => e[1][2] = fragmentationOffset + 1
    BY <2>1, <2>2
  <2>6. PayloadIn(c, packed) \o e = owed'
    BY <1>21, <2>2
  <2> QED BY <1>16, <1>17, <1>19, <1>20, <1>22, <1>23, <2>2, <2>3, <2>4, <2>5, <2>6 DEF Got
<1> QED BY <1>7, <1>13, <1>24

LEMMA FrameComesKeeps ==
  ASSUME IInv, NEW size \in FrameSizes, FrameComes(size)
  PROVE  IInv'
<1>1. /\ MaxPacket \in Nat /\ Limit \in Nat /\ MaxFrames \in Nat /\ size \in Nat
      /\ Preferred \in Nat /\ format.specific \in Nat /\ Preferred + format.specific <= MaxPacket
  BY Sizes DEF IInv, TypeOK
<1>2. /\ phase = "reading" /\ frames < MaxFrames /\ frames' = frames + 1
      /\ UNCHANGED <<format, noFramesLeft, headerSizes, stale>>
  BY DEF FrameComes
<1>3. PICK read, data :
        /\ read = (IF size > TotalBytesAvailable(out) THEN TotalBytesAvailable(out) ELSE size)
        /\ data = [i \in 1..read |-> <<frames + 1, i>>]
  OBVIOUS
<1>4. read \in Nat /\ read <= TotalBytesAvailable(out)
  <2>1. TotalBytesAvailable(out) \in Nat
    <3>1. out.packetStart \in Nat /\ out.curOffset \in Nat /\ out.packetStart + out.curOffset <= Limit
      BY DEF IInv, TypeOK, CurPtr
    <3> QED BY <1>1, <3>1 DEF TotalBytesAvailable, CurPtr
  <2> QED BY <1>1, <1>3, <2>1
<1>5. owed' = owed \o data
  BY <1>3 DEF FrameComes
<1>6. PICK follow, again : AfterGettingFrame(Insert(out, data, out.curOffset), read, follow, again)
  BY <1>3 DEF FrameComes
<1>7. Got(Insert(out, data, out.curOffset), read) /\ owed' \in Seq(Byte)
  BY <1>2, <1>3, <1>4, <1>5, FrameIsGot
<1>8. /\ format \in Formats /\ packed \in Seq(Part) /\ fragmentationOffset \in Nat
      /\ stale \in BOOLEAN /\ noFramesLeft = FALSE
  BY <1>2 DEF IInv, TypeOK, Part, Placed
<1>9. Goods'
  BY <1>2, <1>6, <1>7, <1>8, AfterGettingFrameKeeps
<1>10. /\ (format \in Formats)' /\ (noFramesLeft \in BOOLEAN)' /\ (headerSizes \in Nat)'
       /\ (frames \in 0..MaxFrames)' /\ (owed \in Seq(Byte))' /\ (stale \in BOOLEAN)'
  BY <1>1, <1>2, <1>7, <1>8 DEF IInv, TypeOK
<1> QED BY <1>9, <1>10, GoodsType

-----------------------------------------------------------------------------
(* The other actions.                                                      *)

(* A packet without frames. *)
LEMMA NothingPacked ==
  /\ packed = <<>> => Payload = <<>> /\ FragmentsTold
  /\ packed' = <<>> => Payload' = <<>> /\ FragmentsTold'
<1>1. packed = <<>> => Told(out, packed, owed)
  BY DEF Told
<1>2. packed' = <<>> => Told(out, packed, owed)'
  BY DEF Told
<1> QED BY <1>1, <1>2, PayloadIs, PayloadOfNone, FragmentsToldIs

LEMMA BuildAndSendPacketKeeps ==
  ASSUME IInv, phase \in {"stopped", "waiting"}, BuildAndSendPacket
  PROVE  IInv'
<1>1. /\ RtpHeaderSize \in Nat /\ format.special \in Nat /\ format.specific \in Nat
      /\ Preferred \in Nat /\ MaxPacket \in Nat /\ Limit \in Nat
      /\ RtpHeaderSize + format.special + format.specific < Preferred
      /\ Preferred + format.specific <= MaxPacket
  BY Sizes DEF IInv, TypeOK
<1>2. /\ out \in Buffer /\ out.packetStart \in Nat /\ out.curOffset = 0
      /\ out.overflowOffset \in Nat /\ out.overflowSize \in Nat
      /\ out.packetStart + MaxPacket <= Limit
      /\ HaveOverflowData(out) =>
           /\ out.overflowOffset >= AllHeaders
           /\ out.packetStart + out.overflowOffset + out.overflowSize <= Limit
  BY DEF IInv, Placed, Buffer, TypeOK
<1>3. /\ noFramesLeft' = FALSE /\ headerSizes' = 0 /\ packed' = <<>> /\ phase' = "pack"
      /\ UNCHANGED <<format, fragmentationOffset, endedFragmentation, frames, owed, stale>>
  BY DEF BuildAndSendPacket
<1>4. PICK hs, b : /\ hs = [i \in 1..FrontHeaders |-> Header] /\ b = Insert(out, hs, out.curOffset)
  OBVIOUS
<1>5. FrontHeaders \in Nat /\ AllHeaders = FrontHeaders + format.specific
      /\ hs \in Seq(Byte) /\ Len(hs) = FrontHeaders
  BY <1>1, <1>4, HeaderIsByte DEF FrontHeaders, AllHeaders
<1>6. FrontHeaders < Preferred /\ out.packetStart + FrontHeaders <= Limit
  <2>1. FrontHeaders < Preferred
    BY <1>1, <1>5 DEF FrontHeaders
  <2> QED BY <1>1, <1>2, <1>5, <2>1
<1>7. /\ b \in Buffer /\ b.packetStart = out.packetStart /\ b.curOffset = 0
      /\ b.overflowOffset = out.overflowOffset /\ b.overflowSize = out.overflowSize
      /\ \A p \in 0..(Limit - 1) : p >= out.packetStart + FrontHeaders => b.bytes[p] = out.bytes[p]
  <2>1. PICK o, ps, F : o = out /\ ps = out.packetStart /\ F = FrontHeaders
    OBVIOUS
  <2>2. o \in Buffer /\ ps \in Nat /\ F \in Nat /\ ps + F <= Limit /\ o.packetStart = ps
        /\ Limit \in Nat
    BY <1>1, <1>2, <1>5, <1>6, <2>1
  <2>3. o.packetStart + 0 + Len(hs) <= Limit /\ b = Insert(o, hs, 0)
    BY <1>2, <1>4, <1>5, <2>1, <2>2
  <2>4. /\ b \in Buffer
        /\ b.packetStart = o.packetStart /\ b.curOffset = o.curOffset
        /\ b.overflowOffset = o.overflowOffset /\ b.overflowSize = o.overflowSize
        /\ \A p \in 0..(Limit - 1) :
             b.bytes[p] = IF o.packetStart + 0 <= p /\ p < o.packetStart + 0 + Len(hs)
                          THEN hs[p - (o.packetStart + 0) + 1] ELSE o.bytes[p]
    <3>1. PICK to : to = 0
      OBVIOUS
    <3>2. to \in Nat /\ o.packetStart + to + Len(hs) <= Limit /\ b = Insert(o, hs, to)
      BY <2>3, <3>1
    <3>3. o \in Buffer /\ hs \in Seq(Byte) /\ Limit \in Nat
      BY <1>5, <2>2
    <3>4. /\ b \in Buffer
          /\ b.packetStart = o.packetStart /\ b.curOffset = o.curOffset
          /\ b.overflowOffset = o.overflowOffset /\ b.overflowSize = o.overflowSize
          /\ \A p \in 0..(Limit - 1) :
               b.bytes[p] = IF o.packetStart + to <= p /\ p < o.packetStart + to + Len(hs)
                            THEN hs[p - (o.packetStart + to) + 1] ELSE o.bytes[p]
      BY <3>2, <3>3, InsertWrites
    <3> QED BY <3>1, <3>4
  <2>5. ASSUME NEW p \in 0..(Limit - 1), p >= ps + F PROVE b.bytes[p] = out.bytes[p]
    <3>1. ~(p < o.packetStart + 0 + Len(hs))
      BY <1>5, <2>1, <2>2, <2>5
    <3> QED BY <2>1, <2>4, <3>1
  <2> QED BY <1>2, <2>1, <2>4, <2>5
<1>8. /\ out' \in Buffer /\ out'.bytes = b.bytes /\ out'.packetStart = out.packetStart
      /\ out'.curOffset = FrontHeaders
      /\ out'.overflowOffset = out.overflowOffset /\ out'.overflowSize = out.overflowSize
  <2>1. PICK c, n : c = out' /\ n = FrontHeaders
    OBVIOUS
  <2>2. c = SkipBytes(b, n)
    BY <1>4, <2>1 DEF BuildAndSendPacket, FrontHeaders
  <2>3. b.packetStart + b.curOffset + n <= Limit /\ n \in Nat /\ Limit \in Nat
    BY <1>1, <1>2, <1>5, <1>7, <1>6, <2>1
  <2>4. /\ c \in Buffer /\ c.bytes = b.bytes /\ c.packetStart = b.packetStart
        /\ c.curOffset = b.curOffset + n
        /\ c.overflowOffset = b.overflowOffset /\ c.overflowSize = b.overflowSize
    BY <1>7, <2>2, <2>3, Skips
  <2> QED BY <1>5, <1>7, <2>1, <2>4
<1>9. Overflow' = Overflow
  <2>1. CASE out.overflowSize = 0
    BY <1>8, <2>1, ExtractNothing DEF Overflow
  <2>2. CASE out.overflowSize > 0
    <3>1. \A i \in 1..out.overflowSize :
            /\ out.packetStart + out.overflowOffset + i - 1 \in 0..(Limit - 1)
            /\ out.packetStart + out.overflowOffset + i - 1 >= out.packetStart + FrontHeaders
      <4>1. PICK ps, o, n, F : /\ ps = out.packetStart /\ o = out.overflowOffset
                               /\ n = out.overflowSize /\ F = FrontHeaders
        OBVIOUS
      <4>2. ps \in Nat /\ o \in Nat /\ n \in Nat /\ F \in Nat /\ Limit \in Nat
        BY <1>1, <1>2, <1>5, <4>1
      <4>3. o >= AllHeaders /\ ps + o + n <= Limit
        BY <1>2, <2>2, <4>1 DEF HaveOverflowData
      <4>4. o >= F
        BY <1>1, <1>5, <4>1, <4>2, <4>3
      <4>5. \A i \in 1..n : ps + o + i - 1 \in 0..(Limit - 1) /\ ps + o + i - 1 >= ps + F
        BY <4>2, <4>3, <4>4
      <4> QED BY <4>1, <4>5
    <3>2. \A i \in 1..out.overflowSize :
            out'.bytes[out'.packetStart + out.overflowOffset + i - 1]
              = out.bytes[out.packetStart + out.overflowOffset + i - 1]
      BY <1>7, <1>8, <3>1
    <3> QED BY <1>8, <3>2 DEF Overflow, Extract
  <2> QED BY <1>2, <2>1, <2>2
<1>10. owed = Overflow /\ owed \in Seq(Byte)
  <2>1. CASE phase = "stopped"
    <3>1. owed = <<>> /\ out.overflowSize = 0
      BY <1>2, <2>1 DEF IInv, Placed, HaveOverflowData
    <3> QED BY <3>1, ExtractNothing DEF Overflow, IInv, TypeOK
  <2>2. CASE phase = "waiting"
    <3>1. Payload \o Overflow = owed /\ packed = <<>>
      BY <2>2 DEF IInv, BytesKept, Placed, Overflow
    <3>2. Overflow \in Seq(Byte)
      BY <1>1, <1>2, ExtractTakes DEF Overflow, HaveOverflowData
    <3>3. <<>> \o Overflow = Overflow
      BY <3>2, ConcatEmptySeq
    <3> QED BY <3>1, <3>2, <3>3, NothingPacked
  <2> QED BY <2>1, <2>2
<1>11. Payload' = <<>> /\ FragmentsTold'
  BY <1>3, NothingPacked
<1>12. BytesKept'
  <2>1. <<>> \o owed = owed
    BY <1>10, ConcatEmptySeq
  <2> QED BY <1>3, <1>9, <1>10, <1>11, <2>1 DEF BytesKept, Overflow
<1>13. Placed'
  <2>1. FrontHeaders' = FrontHeaders /\ AllHeaders' = AllHeaders
    BY <1>3 DEF FrontHeaders, AllHeaders
  <2>2. PartsBefore(out.curOffset)'
    BY <1>3, <1>5, <1>8, <1>11, <2>1 DEF PartsBefore
  <2>3. FrontHeaders < Preferred
    BY <1>1 DEF FrontHeaders
  <2> QED BY <1>2, <1>3, <1>5, <1>8, <2>1, <2>2, <2>3 DEF Placed, HaveOverflowData
<1>14. Divided'
  BY <1>3, <1>8, <1>9 DEF IInv, Divided, HaveOverflowData
<1>15. TypeOK'
  <2>1. CurPtr(out') <= Limit
    BY <1>2, <1>8, <1>6 DEF CurPtr
  <2>2. HaveOverflowData(out') => out'.packetStart + out'.overflowOffset + out'.overflowSize <= Limit
    BY <1>2, <1>8 DEF HaveOverflowData
  <2>3. /\ out'.bytes \in [0..(Limit - 1) -> Byte]
        /\ out'.packetStart \in Nat /\ out'.curOffset \in Nat
        /\ out'.overflowOffset \in Nat /\ out'.overflowSize \in Nat
    BY <1>8 DEF Buffer
  <2>4. packed' \in Seq([start : Nat, bytes : Nat, offset : Nat, remaining : Nat])
    BY <1>3
  <2>5. TypeOK
    BY DEF IInv
  <2> QED BY <1>3, <1>10, <2>1, <2>2, <2>3, <2>4, <2>5 DEF TypeOK
<1> QED BY <1>8, <1>11, <1>12, <1>13, <1>14, <1>15 DEF IInv

LEMMA SourceClosesKeeps ==
  ASSUME IInv, SourceCloses
  PROVE  IInv'
<1>1. /\ phase = "reading" /\ noFramesLeft' = TRUE /\ phase' = "send"
      /\ UNCHANGED <<format, out, fragmentationOffset, endedFragmentation, headerSizes, packed,
                     frames, owed, stale>>
  BY DEF SourceCloses
<1>2. /\ RtpHeaderSize \in Nat /\ format.special \in Nat /\ format.specific \in Nat
      /\ Preferred \in Nat /\ MaxPacket \in Nat /\ Preferred + format.specific <= MaxPacket
      /\ out \in Buffer /\ out.curOffset \in Nat /\ packed \in Seq(Part)
  BY Sizes DEF IInv, TypeOK, Buffer, Part
<1>3. /\ Payload' = Payload /\ Overflow' = Overflow
      /\ FrontHeaders' = FrontHeaders /\ AllHeaders' = AllHeaders
  BY <1>1 DEF Payload, PayloadOf, Overflow, FrontHeaders, AllHeaders
<1>4. BytesKept'
  BY <1>1, <1>3 DEF IInv, BytesKept, Overflow
<1>5. Placed'
  <2>1. \A i \in DOMAIN packed : packed[i].start \in Nat /\ packed[i].bytes \in Nat
    BY <1>2, PartIs
  <2>2. PartsBefore(out.curOffset - format.specific)
    BY <1>1 DEF IInv, Placed
  <2>3. PartsBefore(out.curOffset)'
    BY <1>1, <1>2, <1>3, <2>1, <2>2 DEF PartsBefore
  <2>4. out.packetStart + MaxPacket <= Limit /\ out.curOffset >= AllHeaders
        /\ out.curOffset <= MaxPacket /\ ~HaveOverflowData(out)
    BY <1>1, <1>2 DEF IInv, Placed
  <2> QED BY <1>1, <1>3, <2>3, <2>4 DEF Placed
<1>6. Divided'
  BY <1>1, <1>3 DEF IInv, Divided
<1>7. FragmentsTold'
  BY <1>1 DEF IInv, FragmentsTold, PayloadOf
<1>8. TypeOK'
  <2>1. TypeOK
    BY DEF IInv
  <2>2. out.curOffset <= MaxPacket
    <3>1. out.curOffset < Preferred + format.specific
      BY <1>1 DEF IInv, Placed
    <3> QED BY <1>2, <3>1
  <2> QED BY <1>1, <2>1, <2>2 DEF TypeOK, HaveOverflowData, CurPtr
<1> QED BY <1>1, <1>2, <1>4, <1>5, <1>6, <1>7, <1>8 DEF IInv

(* The octet count is the length of what the packet has of frames. *)
LEMMA OctetCount ==
  ASSUME IInv, phase = "send"
  PROVE  BytesPacked = Len(Payload)
<1>1. CASE packed = <<>>
  BY <1>1, NothingPacked DEF BytesPacked
<1>2. CASE packed # <<>>
  <2>1. Len(Payload) = out.curOffset - FrontHeaders - headerSizes
    BY DEF IInv, Placed, PartsBefore
  <2>2. /\ RtpHeaderSize \in Nat /\ format.special \in Nat /\ headerSizes \in Nat
        /\ out.curOffset \in Nat
    BY Sizes DEF IInv, TypeOK
  <2> QED BY <1>2, <2>1, <2>2 DEF BytesPacked, FrontHeaders
<1> QED BY <1>1, <1>2

(* The overflow data stay where they are, but their place is counted from    *)
(* the next packet's start, behind the headers that it will have.            *)
LEMMA OverflowStays ==
  ASSUME IInv, phase = "send", NEW c, c = ResetOffset(NextPacketStart(out))
  PROVE  /\ c \in Buffer /\ c.curOffset = 0 /\ c.packetStart + MaxPacket <= Limit
         /\ HaveOverflowData(c) <=> HaveOverflowData(out)
         /\ c.overflowSize = out.overflowSize
         /\ ~HaveOverflowData(out) => c.packetStart = 0
         /\ HaveOverflowData(out) =>
              /\ c.overflowOffset >= AllHeaders
              /\ c.packetStart + c.overflowOffset = out.packetStart + out.overflowOffset
         /\ Extract(c, c.overflowOffset, c.overflowSize) = Overflow
<1>1. /\ MaxPacket \in Nat /\ Limit \in Nat /\ 2 * MaxPacket <= Limit /\ AllHeaders \in Nat
  <2>1. format \in Formats
    BY DEF IInv, TypeOK
  <2>2. /\ MaxPacket \in Nat /\ Limit \in Nat /\ 2 * MaxPacket <= Limit
        /\ RtpHeaderSize \in Nat /\ format.special \in Nat /\ format.specific \in Nat
    BY <2>1, Sizes
  <2> QED BY <2>2 DEF AllHeaders
<1>2. /\ out \in Buffer /\ out.packetStart \in Nat /\ out.curOffset \in Nat
      /\ out.overflowOffset \in Nat /\ out.overflowSize \in Nat
      /\ out.curOffset >= AllHeaders /\ out.curOffset <= MaxPacket
      /\ HaveOverflowData(out) => out.overflowOffset >= out.curOffset
  BY DEF IInv, Placed, Buffer
<1>3. /\ c \in Buffer /\ c.bytes = out.bytes /\ c.curOffset = 0
      /\ c.packetStart + MaxPacket <= Limit /\ c.overflowSize = out.overflowSize
      /\ ~HaveOverflowData(out) => c.packetStart = 0
      /\ HaveOverflowData(out) =>
           /\ c.overflowOffset >= AllHeaders
           /\ c.packetStart + c.overflowOffset = out.packetStart + out.overflowOffset
  <2>1. CASE HaveOverflowData(out) /\ TotalBytesAvailable(out) > Limit \div 2
    <3>1. PICK n : n = out.curOffset - AllHeaders
      OBVIOUS
    <3>2. n \in Nat /\ n <= out.curOffset /\ out.overflowOffset >= n
          /\ out.overflowOffset - n >= AllHeaders
      BY <1>1, <1>2, <2>1, <3>1
    <3>3. c = [out EXCEPT !.packetStart = @ + n, !.overflowOffset = @ - n, !.curOffset = 0]
      BY <1>2, <2>1, <3>1, <3>2
        DEF NextPacketStart, AdjustPacketStart, ResetOffset, Buffer
    <3>4. out.packetStart + n + MaxPacket <= Limit
      <4>1. Limit \div 2 >= MaxPacket
        BY <1>1
      <4>2. Limit - (out.packetStart + out.curOffset) > MaxPacket
        BY <1>1, <1>2, <2>1, <4>1 DEF TotalBytesAvailable, CurPtr
      <4> QED BY <1>1, <1>2, <3>2, <4>2
    <3>5. PICK ps, o : ps = out.packetStart + n /\ o = out.overflowOffset - n
      OBVIOUS
    <3>6. ps \in Nat /\ o \in Nat /\ ps + o = out.packetStart + out.overflowOffset
      BY <1>2, <3>2, <3>5
    <3>7. c = [out EXCEPT !.packetStart = ps, !.overflowOffset = o, !.curOffset = 0]
      BY <3>3, <3>5
    <3>8. /\ c \in Buffer /\ c.bytes = out.bytes /\ c.packetStart = ps /\ c.curOffset = 0
          /\ c.overflowOffset = o /\ c.overflowSize = out.overflowSize
      <4>1. PICK b \in Buffer : b = out
        BY <1>2
      <4>2. ps \in Nat /\ o \in Nat
        BY <3>6
      <4>3. /\ Moved(b, ps, o) \in Buffer /\ Moved(b, ps, o).bytes = b.bytes
            /\ Moved(b, ps, o).packetStart = ps /\ Moved(b, ps, o).curOffset = 0
            /\ Moved(b, ps, o).overflowOffset = o
            /\ Moved(b, ps, o).overflowSize = b.overflowSize
        BY <4>2, Relocate
      <4>4. c = Moved(b, ps, o)
        BY <3>7, <4>1 DEF Moved
      <4> QED BY <4>1, <4>3, <4>4
    <3> QED BY <2>1, <3>2, <3>4, <3>5, <3>6, <3>8
  <2>2. CASE ~(HaveOverflowData(out) /\ TotalBytesAvailable(out) > Limit \div 2)
    <3>1. c = [out EXCEPT !.packetStart = 0,
                          !.overflowOffset = IF HaveOverflowData(out) THEN @ + out.packetStart ELSE @,
                          !.curOffset = 0]
      BY <1>2, <2>2 DEF NextPacketStart, ResetPacketStart, ResetOffset, Buffer
    <3>2. PICK o : o = IF HaveOverflowData(out) THEN out.overflowOffset + out.packetStart
                                                ELSE out.overflowOffset
      OBVIOUS
    <3>3. o \in Nat
      BY <1>2, <3>2
    <3>4. c = [out EXCEPT !.packetStart = 0, !.overflowOffset = o, !.curOffset = 0]
      BY <1>2, <3>1, <3>2
    <3>5. /\ c \in Buffer /\ c.packetStart = 0 /\ c.overflowOffset = o /\ c.curOffset = 0
          /\ c.bytes = out.bytes /\ c.overflowSize = out.overflowSize
      <4>1. PICK b \in Buffer, start \in Nat : b = out /\ start = 0
        BY <1>2
      <4>2. /\ Moved(b, start, o) \in Buffer /\ Moved(b, start, o).bytes = b.bytes
            /\ Moved(b, start, o).packetStart = start /\ Moved(b, start, o).curOffset = 0
            /\ Moved(b, start, o).overflowOffset = o
            /\ Moved(b, start, o).overflowSize = b.overflowSize
        BY <3>3, Relocate
      <4>3. c = Moved(b, start, o)
        BY <3>4, <4>1 DEF Moved
      <4> QED BY <4>1, <4>2, <4>3
    <3>6. c.packetStart + MaxPacket <= Limit
      BY <1>1, <3>5
    <3>7. ASSUME HaveOverflowData(out)
          PROVE  /\ o >= AllHeaders
                 /\ c.packetStart + o = out.packetStart + out.overflowOffset
      <4>1. o = out.overflowOffset + out.packetStart /\ out.overflowOffset >= out.curOffset
        BY <1>2, <3>2, <3>7
      <4> QED BY <1>1, <1>2, <3>5, <4>1
    <3> QED BY <3>5, <3>6, <3>7
  <2> QED BY <2>1, <2>2
<1>4. Extract(c, c.overflowOffset, c.overflowSize) = Overflow
  <2>1. CASE HaveOverflowData(out)
    <3>1. c.overflowOffset \in Nat /\ c.packetStart \in Nat
      BY <1>3 DEF Buffer
    <3>2. \A i \in 1..out.overflowSize :
            c.bytes[c.packetStart + c.overflowOffset + i - 1]
              = out.bytes[out.packetStart + out.overflowOffset + i - 1]
      BY <1>3, <2>1
    <3> QED BY <1>3, <3>2 DEF Overflow, Extract
  <2>2. CASE ~HaveOverflowData(out)
    <3>1. out.overflowSize = 0
      BY <1>2, <2>2 DEF HaveOverflowData
    <3> QED BY <1>3, <3>1, ExtractNothing DEF Overflow
  <2> QED BY <2>1, <2>2
<1> QED BY <1>3, <1>4 DEF HaveOverflowData

LEMMA RestOfConcat ==
  ASSUME NEW S, NEW s \in Seq(S), NEW t \in Seq(S)
  PROVE  SubSeq(s \o t, Len(s) + 1, Len(s \o t)) = t
<1>1. PICK m, n, u : m = Len(s) /\ n = Len(t) /\ u = s \o t
  OBVIOUS
<1>2. /\ m \in Nat /\ n \in Nat /\ u \in Seq(S) /\ Len(u) = m + n
      /\ \A i \in 1..(m + n) : u[i] = IF i <= m THEN s[i] ELSE t[i - m]
  BY <1>1, ConcatProperties
<1>3. /\ SubSeq(u, m + 1, m + n) \in Seq(S) /\ Len(SubSeq(u, m + 1, m + n)) = n
      /\ \A i \in 1..n : SubSeq(u, m + 1, m + n)[i] = u[m + i]
  <2>1. \A i \in (m + 1)..(m + n) : u[i] \in S
    BY <1>2
  <2> QED BY <1>2, <2>1
<1>4. ASSUME NEW i \in 1..n PROVE u[m + i] = t[i]
  <2>1. m + i \in 1..(m + n) /\ ~(m + i <= m) /\ (m + i) - m = i
    BY <1>2
  <2> QED BY <1>2, <2>1
<1>5. SubSeq(u, m + 1, m + n) = t
  BY <1>1, <1>3, <1>4, SeqEqual
<1> QED BY <1>1, <1>2, <1>5

LEMMA SendPacketIfNecessaryKeeps ==
  ASSUME IInv, SendPacketIfNecessary
  PROVE  IInv'
<1>1. /\ phase = "send" /\ packed' = <<>>
      /\ out' = ResetOffset(NextPacketStart(out))
      /\ owed' = SubSeq(owed, BytesPacked + 1, Len(owed))
      /\ phase' = (IF noFramesLeft THEN "stopped" ELSE "waiting")
      /\ stale' = (stale /\ fragmentationOffset # 0)
      /\ UNCHANGED <<format, fragmentationOffset, endedFragmentation, noFramesLeft, headerSizes, frames>>
  BY DEF SendPacketIfNecessary
<1>2. /\ Limit \in Nat /\ MaxPacket \in Nat /\ out \in Buffer /\ packed \in Seq(Part)
      /\ frames \in Nat /\ noFramesLeft \in BOOLEAN /\ stale \in BOOLEAN
      /\ out.overflowOffset \in Nat /\ out.overflowSize \in Nat
      /\ HaveOverflowData(out) => out.packetStart + out.overflowOffset + out.overflowSize <= Limit
      /\ FrontHeaders \in Nat /\ out.packetStart \in Nat /\ out.curOffset \in Nat
  <2>1. TypeOK /\ out \in Buffer
    BY DEF IInv
  <2>2. format \in Formats /\ frames \in 0..MaxFrames
    BY <2>1 DEF TypeOK
  <2>3. /\ Limit \in Nat /\ MaxPacket \in Nat
        /\ RtpHeaderSize \in Nat /\ format.special \in Nat
    BY <2>2, Sizes
  <2>4. FrontHeaders \in Nat
    BY <2>3 DEF FrontHeaders
  <2>5. frames \in Nat
    BY <2>2
  <2> QED BY <2>1, <2>3, <2>4, <2>5 DEF TypeOK, Part
<1>3. /\ out' \in Buffer /\ out'.curOffset = 0 /\ out'.packetStart + MaxPacket <= Limit
      /\ HaveOverflowData(out') <=> HaveOverflowData(out)
      /\ out'.overflowSize = out.overflowSize
      /\ ~HaveOverflowData(out) => out'.packetStart = 0
      /\ HaveOverflowData(out) =>
           /\ out'.overflowOffset >= AllHeaders
           /\ out'.packetStart + out'.overflowOffset = out.packetStart + out.overflowOffset
      /\ Overflow' = Overflow
  <2>1. PICK c : c = ResetOffset(NextPacketStart(out))
    OBVIOUS
  <2> QED BY <1>1, <2>1, OverflowStays DEF Overflow
<1>4. Overflow \in Seq(Byte) /\ Len(Overflow) = out.overflowSize
  BY <1>2, ExtractTakes DEF Overflow, HaveOverflowData
<1>5. Payload \in Seq(Byte)
  <2>1. \A i \in DOMAIN packed : packed[i].start \in Nat /\ packed[i].bytes \in Nat
    BY <1>2, PartIs
  <2>2. Fit(out, packed)
    <3>1. /\ out.packetStart + MaxPacket <= Limit /\ out.curOffset <= MaxPacket
          /\ PartsBefore(out.curOffset)
      BY <1>1 DEF IInv, Placed
    <3>2. PICK ps, cur : ps = out.packetStart /\ cur = out.curOffset
      OBVIOUS
    <3>3. ps \in Nat /\ cur \in Nat /\ ps + cur <= Limit
      BY <1>2, <3>1, <3>2
    <3>4. ASSUME NEW i \in DOMAIN packed
          PROVE  out.packetStart + packed[i].start + packed[i].bytes <= Limit
      <4>1. packed[i].start + packed[i].bytes <= cur
        BY <3>1, <3>2 DEF PartsBefore
      <4> QED BY <1>2, <2>1, <3>2, <3>3, <4>1
    <3> QED BY <3>4 DEF Fit
  <2> QED BY <1>2, <2>2, PayloadType, PayloadIs
<1>6. owed' = Overflow
  <2>1. owed = Payload \o Overflow
    BY <1>1 DEF IInv, BytesKept, Overflow
  <2> QED BY <1>1, <1>4, <1>5, <2>1, OctetCount, RestOfConcat
<1>7. Payload' = <<>> /\ FragmentsTold'
  BY <1>1, NothingPacked
<1>8. BytesKept'
  <2>1. <<>> \o Overflow = Overflow
    BY <1>4, ConcatEmptySeq
  <2> QED BY <1>3, <1>6, <1>7, <2>1 DEF BytesKept, Overflow
<1>9. Placed'
  <2>1. noFramesLeft => ~HaveOverflowData(out) /\ Overflow = <<>>
    <3>1. noFramesLeft => ~HaveOverflowData(out)
      BY <1>1 DEF IInv, Placed
    <3>2. ~HaveOverflowData(out) => out.overflowSize = 0
      BY <1>2 DEF HaveOverflowData
    <3> QED BY <3>1, <3>2, ExtractNothing DEF Overflow
  <2>2. AllHeaders' = AllHeaders
    BY <1>1 DEF AllHeaders
  <2> QED BY <1>1, <1>3, <1>6, <2>1, <2>2 DEF Placed
<1>10. Divided'
  <2>1. \A k \in 1..out.overflowSize : Overflow[k] = <<frames, Overflow[1][2] + k - 1>>
    BY DEF IInv, Divided
  <2>2. \A k \in DOMAIN owed' : owed'[k][1] <= frames'
    <3>1. DOMAIN owed' = 1..out.overflowSize
      BY <1>4, <1>6
    <3>2. ASSUME NEW k \in 1..out.overflowSize PROVE owed'[k][1] <= frames'
      <4>1. owed'[k] = <<frames, Overflow[1][2] + k - 1>>
        BY <1>6, <2>1
      <4>2. \A x, y : <<x, y>>[1] = x
        OBVIOUS
      <4>3. owed'[k][1] = frames
        BY <4>1, <4>2
      <4>4. frames' = frames
        BY <1>1
      <4>5. frames <= frames
        BY <1>2
      <4> QED BY <4>3, <4>4, <4>5
    <3> QED BY <3>1, <3>2
  <2>3. /\ HaveOverflowData(out) /\ (~stale \/ fragmentationOffset = 0) =>
             Overflow[1][2] = fragmentationOffset + 1
        /\ ~HaveOverflowData(out) /\ ~stale => fragmentationOffset = 0
    BY DEF IInv, Divided
  <2> QED BY <1>1, <1>3, <2>1, <2>2, <2>3 DEF Divided
<1>11. TypeOK'
  <2>1. CurPtr(out') <= Limit
    BY <1>2, <1>3 DEF CurPtr, Buffer
  <2>2. HaveOverflowData(out') => out'.packetStart + out'.overflowOffset + out'.overflowSize <= Limit
    BY <1>2, <1>3
  <2>3. packed' \in Seq(Part)
    BY <1>1
  <2> QED BY <1>1, <1>2, <1>3, <1>4, <1>6, <2>1, <2>2, <2>3 DEF IInv, TypeOK, Buffer, Part
<1> QED BY <1>3, <1>7, <1>8, <1>9, <1>10, <1>11 DEF IInv

LEMMA StopPlayingKeeps ==
  ASSUME IInv, StopPlaying
  PROVE  IInv'
<1>1. /\ phase' = "stopped" /\ owed' = <<>> /\ stale' = (fragmentationOffset # 0)
      /\ out' = ResetOverflowData(ResetOffset(ResetPacketStart(out)))
      /\ UNCHANGED <<format, fragmentationOffset, endedFragmentation, noFramesLeft, headerSizes,
                     packed, frames>>
  BY DEF StopPlaying, sinkVars
<1>2. out \in Buffer /\ MaxPacket \in Nat /\ Limit \in Nat /\ MaxPacket <= Limit
  BY Sizes DEF IInv, TypeOK
<1>3. /\ out' \in Buffer /\ out'.packetStart = 0 /\ out'.curOffset = 0
      /\ out'.overflowOffset = 0 /\ out'.overflowSize = 0
  BY <1>1, <1>2 DEF ResetOverflowData, SetOverflowData, ResetOffset, ResetPacketStart, Buffer
<1>4. ~HaveOverflowData(out')
  BY <1>3 DEF HaveOverflowData
<1>5. BytesKept' /\ FragmentsTold'
  BY <1>1 DEF BytesKept, FragmentsTold
<1>6. Placed'
  BY <1>1, <1>2, <1>3, <1>4 DEF Placed
<1>7. Divided'
  <2>1. \A k \in DOMAIN owed' : FALSE
    BY <1>1
  <2>2. \A k \in 1..out'.overflowSize : FALSE
    BY <1>3
  <2>3. ~stale' => fragmentationOffset' = 0
    BY <1>1
  <2> QED BY <1>1, <1>4, <2>1, <2>2, <2>3 DEF Divided
<1>8. TypeOK'
  BY <1>1, <1>2, <1>3, <1>4 DEF IInv, TypeOK, Buffer, CurPtr
<1> QED BY <1>3, <1>5, <1>6, <1>7, <1>8 DEF IInv

LEMMA InitIInv ==
  ASSUME Init
  PROVE  IInv
<1>1. /\ MaxPacket \in Nat /\ Limit \in Nat /\ MaxFrames \in Nat /\ MaxPacket <= Limit
  BY Sizes DEF Init
<1>2. /\ out \in Buffer /\ out.packetStart = 0 /\ out.curOffset = 0
      /\ out.overflowOffset = 0 /\ out.overflowSize = 0
  BY HeaderIsByte DEF Init, EmptyBuffer, Buffer
<1>3. ~HaveOverflowData(out)
  BY <1>2 DEF HaveOverflowData
<1>4. BytesKept /\ FragmentsTold
  BY DEF Init, BytesKept, FragmentsTold
<1>5. Placed
  BY <1>1, <1>2, <1>3 DEF Init, Placed
<1>6. Divided
  BY <1>2, <1>3 DEF Init, Divided
<1>7. TypeOK
  <2>1. /\ out.bytes \in [0..(Limit - 1) -> Byte]
        /\ out.packetStart \in Nat /\ out.curOffset \in Nat /\ CurPtr(out) <= Limit
        /\ out.overflowOffset \in Nat /\ out.overflowSize \in Nat
    BY <1>1, <1>2 DEF Buffer, CurPtr
  <2>2. packed \in Seq([start : Nat, bytes : Nat, offset : Nat, remaining : Nat])
        /\ owed \in Seq(Byte)
    BY DEF Init
  <2>3. frames \in 0..MaxFrames /\ headerSizes \in Nat /\ fragmentationOffset \in Nat
    BY <1>1 DEF Init
  <2> QED BY <1>3, <2>1, <2>2, <2>3 DEF Init, TypeOK
<1> QED BY <1>2, <1>4, <1>5, <1>6, <1>7 DEF IInv

LEMMA StutteringKeeps ==
  ASSUME IInv, UNCHANGED vars
  PROVE  IInv'
<1>1. /\ TypeOK' /\ (out \in Buffer)'
  BY DEF vars, sinkVars, IInv, TypeOK
<1>2. Placed'
  BY DEF vars, sinkVars, IInv, Placed, PartsBefore, FrontHeaders, AllHeaders, Payload, PayloadOf
<1>3. BytesKept'
  BY DEF vars, sinkVars, IInv, BytesKept, Payload, PayloadOf
<1>4. Divided'
  BY DEF vars, sinkVars, IInv, Divided, Overflow
<1>5. FragmentsTold'
  BY DEF vars, sinkVars, IInv, FragmentsTold, PayloadOf
<1> QED BY <1>1, <1>2, <1>3, <1>4, <1>5 DEF IInv

LEMMA NextKeeps ==
  ASSUME IInv, [Next]_vars
  PROVE  IInv'
<1>1. CASE StartPlaying
  BY <1>1, BuildAndSendPacketKeeps DEF StartPlaying
<1>2. CASE SendNext
  BY <1>2, BuildAndSendPacketKeeps DEF SendNext
<1>3. CASE PackFrame
  BY <1>3, PackFrameKeeps
<1>4. CASE \E size \in FrameSizes : FrameComes(size)
  BY <1>4, FrameComesKeeps
<1>5. CASE SourceCloses
  BY <1>5, SourceClosesKeeps
<1>6. CASE SendPacketIfNecessary
  BY <1>6, SendPacketIfNecessaryKeeps
<1>7. CASE StopPlaying
  BY <1>7, StopPlayingKeeps
<1>8. CASE UNCHANGED vars
  BY <1>8, StutteringKeeps
<1> QED BY <1>1, <1>2, <1>3, <1>4, <1>5, <1>6, <1>7, <1>8 DEF Next

-----------------------------------------------------------------------------
(* The strengthening of the three below holds: no header and no frame is     *)
(* written over a part that is in the packet, or over the overflow data.     *)
THEOREM Invariance == Spec => []IInv
<1>1. Init => IInv
  BY InitIInv
<1>2. IInv /\ [Next]_vars => IInv'
  BY NextKeeps
<1> QED BY <1>1, <1>2, PTL DEF Spec

(* Neither a frame nor the data kept for the next packet reach over the end  *)
(* of the buffer, and no packet is sent that is larger than fMax.            *)
THEOREM TypeCorrect == Spec => []TypeOK
<1>1. IInv => TypeOK
  BY DEF IInv
<1> QED BY <1>1, Invariance, PTL

(* What has been packed and the overflow data behind it are, in order and    *)
(* byte by byte, what the source delivered and sendPacketIfNecessary has not *)
(* sent.                                                                     *)
THEOREM BytesAreKept == Spec => []BytesKept
<1>1. IInv => BytesKept
  BY DEF IInv
<1> QED BY <1>1, Invariance, PTL

(* doSpecialFrameHandling is told truly where each part of a frame begins    *)
(* and how much of it is still to come, and parts and frames are together in *)
(* a packet only as the format allows, unless the sink was stopped within a  *)
(* frame.                                                                    *)
THEOREM FragmentsAreTold == Spec => []FragmentsTold
<1>1. IInv => FragmentsTold
  BY DEF IInv
<1> QED BY <1>1, Invariance, PTL
=============================================================================
